---------------------------- MODULE Spec2Model ----------------------------
(***************************************************************************)
(* A model of clar2wasm: the value-marshalling layer (wasm_utils.rs) and   *)
(* the code the generator emits for the words of src/clar2wasm/src/words.  *)
(* The emitted Wasm is modelled by what it does when it runs: locals, the  *)
(* evaluation stack, linear memory and the stack-pointer global.           *)
(*                                                                         *)
(* 128-bit integers are kept at their width as 16 little-endian bytes      *)
(* (TLC's integers are 32 bits wide): byte 1 is the least significant.     *)
(***************************************************************************)
EXTENDS Integers, Sequences, FiniteSets, TLC

(***************************************************************************)
(* Clarity types (clarity::vm::types::TypeSignature)                       *)
(***************************************************************************)
TInt == [k |-> "int"]
TUInt == [k |-> "uint"]
TBool == [k |-> "bool"]
TNoType == [k |-> "notype"]
TPrincipal == [k |-> "principal"]
TBuff(n) == [k |-> "buff", n |-> n]
TAscii(n) == [k |-> "ascii", n |-> n]
TUtf8(n) == [k |-> "utf8", n |-> n]
TList(t, n) == [k |-> "list", t |-> t, n |-> n]
TOpt(t) == [k |-> "opt", t |-> t]
TResp(o, e) == [k |-> "resp", ok |-> o, err |-> e]
\* fs: a sequence of [name, t], in ascending name order (a BTreeMap)
TTuple(fs) == [k |-> "tuple", fs |-> fs]

(***************************************************************************)
(* Clarity values (clarity::vm::Value)                                     *)
(***************************************************************************)
Byte == 0..255

\* the bytes of a small integer n as a 128-bit two's complement number
RECURSIVE LeBytes(_, _)
LeBytes(n, count) ==
    IF count = 0 THEN <<>> ELSE <<n % 256>> \o LeBytes(n \div 256, count - 1)

VInt(n) == [k |-> "int", bytes |-> LeBytes(n, 16)]
VUInt(n) == [k |-> "uint", bytes |-> LeBytes(n, 16)]
VBool(b) == [k |-> "bool", b |-> b]
VBuff(bs) == [k |-> "buff", data |-> bs]
VAscii(bs) == [k |-> "ascii", data |-> bs]
VUtf8(bs) == [k |-> "utf8", data |-> bs]
VNone == [k |-> "opt", some |-> FALSE]
VSome(v) == [k |-> "opt", some |-> TRUE, data |-> v]
VOk(v) == [k |-> "resp", committed |-> TRUE, data |-> v]
VErr(v) == [k |-> "resp", committed |-> FALSE, data |-> v]
\* name = <<>> for a standard principal
VPrincipal(version, hash, name) ==
    [k |-> "principal", version |-> version, hash |-> hash, name |-> name]
\* fs: a sequence of [name, v], in ascending name order (a BTreeMap)
VTuple(fs) == [k |-> "tuple", fs |-> fs]
\* ts: the item type of ListData.type_signature
VList(data, ts) == [k |-> "list", data |-> data, ts |-> ts]

Max(a, b) == IF a >= b THEN a ELSE b

RECURSIVE LeastSupertype(_, _)
LeastSupertype(a, b) ==
    IF a.k = "notype" THEN b
    ELSE IF b.k = "notype" THEN a
    ELSE IF a.k = "opt" /\ b.k = "opt" THEN TOpt(LeastSupertype(a.t, b.t))
    ELSE IF a.k = "resp" /\ b.k = "resp"
         THEN TResp(LeastSupertype(a.ok, b.ok), LeastSupertype(a.err, b.err))
    ELSE IF a.k = "buff" /\ b.k = "buff" THEN TBuff(Max(a.n, b.n))
    ELSE IF a.k = "ascii" /\ b.k = "ascii" THEN TAscii(Max(a.n, b.n))
    ELSE IF a.k = "utf8" /\ b.k = "utf8" THEN TUtf8(Max(a.n, b.n))
    ELSE IF a.k = "list" /\ b.k = "list"
         THEN TList(LeastSupertype(a.t, b.t), Max(a.n, b.n))
    ELSE a

RECURSIVE TypeOf(_)
TypeOf(v) ==
    CASE v.k = "int" -> TInt
      [] v.k = "uint" -> TUInt
      [] v.k = "bool" -> TBool
      [] v.k = "principal" -> TPrincipal
      [] v.k = "buff" -> TBuff(Len(v.data))
      [] v.k = "ascii" -> TAscii(Len(v.data))
      [] v.k = "utf8" -> TUtf8(Len(v.data))
      [] v.k = "opt" -> IF v.some THEN TOpt(TypeOf(v.data)) ELSE TOpt(TNoType)
      [] v.k = "resp" -> IF v.committed THEN TResp(TypeOf(v.data), TNoType)
                         ELSE TResp(TNoType, TypeOf(v.data))
      [] v.k = "tuple" ->
            TTuple([i \in 1..Len(v.fs) |->
                      [name |-> v.fs[i].name, t |-> TypeOf(v.fs[i].v)]])
      [] v.k = "list" -> TList(v.ts, Len(v.data))

RECURSIVE ParentItemType(_, _)
ParentItemType(data, i) ==
    IF i > Len(data) THEN TNoType
    ELSE LeastSupertype(TypeOf(data[i]), ParentItemType(data, i + 1))

\* Value::cons_list_unsanitized: the list type is the parent type of the items
ConsList(data) == VList(data, ParentItemType(data, 1))

(***************************************************************************)
(* Type layout (clarity::vm::clarity_wasm, wasm_generator::clar2wasm_ty)   *)
(***************************************************************************)
RECURSIVE get_type_size(_)
RECURSIVE TupleSize(_, _)
TupleSize(fs, i) ==
    IF i > Len(fs) THEN 0 ELSE get_type_size(fs[i].t) + TupleSize(fs, i + 1)

get_type_size(ty) ==
    CASE ty.k \in {"int", "uint"} -> 16
      [] ty.k \in {"bool", "notype"} -> 4
      [] ty.k \in {"principal", "buff", "ascii", "utf8", "list"} -> 8
      [] ty.k = "opt" -> 4 + get_type_size(ty.t)
      [] ty.k = "resp" -> 4 + get_type_size(ty.ok) + get_type_size(ty.err)
      [] ty.k = "tuple" -> TupleSize(ty.fs, 1)

is_in_memory_type(ty) == ty.k \in {"principal", "buff", "ascii", "utf8", "list"}

RECURSIVE clar2wasm_ty(_)
RECURSIVE TupleSlots(_, _)
TupleSlots(fs, i) ==
    IF i > Len(fs) THEN <<>> ELSE clar2wasm_ty(fs[i].t) \o TupleSlots(fs, i + 1)

clar2wasm_ty(ty) ==
    CASE ty.k \in {"int", "uint"} -> <<"i64", "i64">>
      [] ty.k \in {"bool", "notype"} -> <<"i32">>
      [] ty.k \in {"principal", "buff", "ascii", "utf8", "list"} -> <<"i32", "i32">>
      [] ty.k = "opt" -> <<"i32">> \o clar2wasm_ty(ty.t)
      [] ty.k = "resp" -> <<"i32">> \o clar2wasm_ty(ty.ok) \o clar2wasm_ty(ty.err)
      [] ty.k = "tuple" -> TupleSlots(ty.fs, 1)

(***************************************************************************)
(* Linear memory                                                           *)
(***************************************************************************)
MemSize == 256

Addr == 0..(MemSize - 1)

InBounds(off, len) == off >= 0 /\ len >= 0 /\ off + len <= MemSize

\* memory.write(offset, bytes); the caller checks InBounds
MemWrite(mem, off, bytes) ==
    [a \in Addr |-> IF a >= off /\ a < off + Len(bytes) THEN bytes[a - off + 1]
                    ELSE mem[a]]

\* memory.read(offset, buffer of len bytes)
MemRead(mem, off, len) == [i \in 1..len |-> mem[off + i - 1]]

\* i32::to_le_bytes / i32::from_le_bytes for the non-negative values met here
I32ToLe(x) == LeBytes(x, 4)

I32FromLe(bs) == bs[1] + 256 * bs[2] + 65536 * bs[3] + 16777216 * (bs[4] % 128)


(***************************************************************************)
(* wasm_utils.rs: write_to_wasm                                            *)
(***************************************************************************)
\* the result of a write: the memory, Ok((written, in_mem_written)) or Err
WResult(mem, written, in_mem_written, err) ==
    [mem |-> mem, written |-> written, in_mem_written |-> in_mem_written,
     err |-> err]

\* memory.write(..).map_err(UnableToWriteMemory)?, after the earlier steps r
WriteStep(r, off, bytes) ==
    IF r.err # "none" THEN r
    ELSE IF ~InBounds(off, Len(bytes))
         THEN [r EXCEPT !.err = "UnableToWriteMemory"]
    ELSE [r EXCEPT !.mem = MemWrite(r.mem, off, bytes)]

\* the (offset, length) representation of an in-memory value, at `offset`
WriteRepr(r, offset, in_mem_offset, length, include_repr) ==
    IF include_repr
    THEN LET a == WriteStep(r, offset, I32ToLe(in_mem_offset))
             b == WriteStep(a, offset + 4, I32ToLe(length))
         IN  IF b.err # "none" THEN b ELSE [b EXCEPT !.written = 8]
    ELSE r

\* the bytes of a principal: version, hash, length of the name, name
PrincipalBytes(p) == <<p.version>> \o p.hash \o <<Len(p.name)>> \o p.name

FieldType(fs, name) ==
    IF \E i \in 1..Len(fs) : fs[i].name = name
    THEN (CHOOSE f \in {fs[i] : i \in 1..Len(fs)} : f.name = name).t
    ELSE TNoType

HasField(fs, name) == \E i \in 1..Len(fs) : fs[i].name = name

\* the item size that places the payload of a list after its items
ListPayloadItemSize(ty, value) == get_type_size(value.ts)

RECURSIVE write_to_wasm(_, _, _, _, _, _)
RECURSIVE WriteListElems(_, _, _, _, _, _)
RECURSIVE WriteTupleFields(_, _, _, _, _, _)

\* r carries the memory and the running (val_written, val_in_mem_written)
WriteListElems(r, elem_ty, val_offset, val_in_mem_offset, data, i) ==
    IF r.err # "none" \/ i > Len(data) THEN r
    ELSE LET w == write_to_wasm(r.mem, elem_ty, val_offset + r.written,
                                val_in_mem_offset + r.in_mem_written,
                                data[i], TRUE)
         IN  IF w.err # "none" THEN [r EXCEPT !.mem = w.mem, !.err = w.err]
             ELSE WriteListElems(
                    WResult(w.mem, r.written + w.written,
                            r.in_mem_written + w.in_mem_written, "none"),
                    elem_ty, val_offset, val_in_mem_offset, data, i + 1)

WriteTupleFields(r, type_fs, offset, in_mem_offset, fs, i) ==
    IF r.err # "none" \/ i > Len(fs) THEN r
    ELSE IF ~HasField(type_fs, fs[i].name)
         THEN [r EXCEPT !.err = "ValueTypeMismatch"]
    ELSE LET w == write_to_wasm(r.mem, FieldType(type_fs, fs[i].name),
                                offset + r.written,
                                in_mem_offset + r.in_mem_written,
                                fs[i].v, TRUE)
         IN  IF w.err # "none" THEN [r EXCEPT !.mem = w.mem, !.err = w.err]
             ELSE WriteTupleFields(
                    WResult(w.mem, r.written + w.written,
                            r.in_mem_written + w.in_mem_written, "none"),
                    type_fs, offset, in_mem_offset, fs, i + 1)

write_to_wasm(mem, ty, offset, in_mem_offset, value, include_repr) ==
    LET start == WResult(mem, 0, 0, "none")
        mismatch == WResult(mem, 0, 0, "ValueTypeMismatch")
    IN
    CASE ty.k \in {"int", "uint"} ->
            IF value.k # ty.k THEN mismatch
            ELSE LET low == SubSeq(value.bytes, 1, 8)
                     high == SubSeq(value.bytes, 9, 16)
                     a == WriteStep(start, offset, low)
                     b == WriteStep(a, offset + 8, high)
                 IN  IF b.err # "none" THEN b ELSE [b EXCEPT !.written = 16]
      [] ty.k \in {"buff", "ascii"} ->
            IF value.k # ty.k THEN mismatch
            ELSE LET a == WriteStep(start, in_mem_offset, value.data)
                     b == IF a.err # "none" THEN a
                          ELSE [a EXCEPT !.in_mem_written = Len(value.data)]
                 IN  WriteRepr(b, offset, in_mem_offset, Len(value.data),
                               include_repr)
      [] ty.k = "list" ->
            IF value.k # "list" THEN mismatch
            ELSE LET val_offset == in_mem_offset
                     val_in_mem_offset ==
                        in_mem_offset
                        + Len(value.data) * ListPayloadItemSize(ty, value)
                     e == WriteListElems(start, ty.t, val_offset,
                                         val_in_mem_offset, value.data, 1)
                     val_written == e.written
                     val_in_mem_written == e.in_mem_written
                     f == IF e.err # "none" THEN e
                          ELSE WriteRepr([e EXCEPT !.written = 0], offset,
                                         in_mem_offset, val_written,
                                         include_repr)
                 IN  IF f.err # "none" THEN f
                     ELSE [f EXCEPT !.in_mem_written =
                                        val_written + val_in_mem_written]
      \* TypeSignature::SequenceType(_) => todo!(..)
      [] ty.k = "utf8" -> WResult(mem, 0, 0, "panic")
      [] ty.k = "resp" ->
            IF value.k # "resp" THEN mismatch
            ELSE LET indicator == IF value.committed THEN 1 ELSE 0
                     a == WriteStep(start, offset, I32ToLe(indicator))
                 IN  IF a.err # "none" THEN a
                     ELSE IF value.committed
                     THEN LET w == write_to_wasm(a.mem, ty.ok, offset + 4,
                                                 in_mem_offset, value.data, TRUE)
                          IN  IF w.err # "none" THEN w
                              ELSE WResult(w.mem,
                                           4 + w.written + get_type_size(ty.err),
                                           w.in_mem_written, "none")
                     ELSE LET skipped == 4 + get_type_size(ty.ok)
                              w == write_to_wasm(a.mem, ty.err, offset + skipped,
                                                 in_mem_offset, value.data, TRUE)
                          IN  IF w.err # "none" THEN w
                              ELSE WResult(w.mem, skipped + w.written,
                                           w.in_mem_written, "none")
      [] ty.k = "bool" ->
            IF value.k # "bool" THEN mismatch
            ELSE LET a == WriteStep(start, offset,
                                    I32ToLe(IF value.b THEN 1 ELSE 0))
                 IN  IF a.err # "none" THEN a ELSE [a EXCEPT !.written = 4]
      [] ty.k = "notype" ->
            LET a == WriteStep(start, offset, <<0, 0, 0, 0>>)
            IN  IF a.err # "none" THEN a ELSE [a EXCEPT !.written = 4]
      [] ty.k = "opt" ->
            IF value.k # "opt" THEN mismatch
            ELSE LET indicator == IF value.some THEN 1 ELSE 0
                     a == WriteStep(start, offset, I32ToLe(indicator))
                 IN  IF a.err # "none" THEN a
                     ELSE IF value.some
                     THEN LET w == write_to_wasm(a.mem, ty.t, offset + 4,
                                                 in_mem_offset, value.data, TRUE)
                          IN  IF w.err # "none" THEN w
                              ELSE WResult(w.mem, 4 + w.written,
                                           w.in_mem_written, "none")
                     ELSE WResult(a.mem, 4 + get_type_size(ty.t), 0, "none")
      [] ty.k = "principal" ->
            IF value.k # "principal" THEN mismatch
            ELSE LET bytes == PrincipalBytes(value)
                     a == WriteStep(start, in_mem_offset, bytes)
                     b == IF a.err # "none" THEN a
                          ELSE [a EXCEPT !.in_mem_written = Len(bytes)]
                 IN  WriteRepr(b, offset, in_mem_offset, Len(bytes),
                               include_repr)
      [] ty.k = "tuple" ->
            IF value.k # "tuple" THEN mismatch
            ELSE WriteTupleFields(start, ty.fs, offset, in_mem_offset,
                                  value.fs, 1)

(***************************************************************************)
(* wasm_utils.rs: read_from_wasm, read_from_wasm_indirect                  *)
(***************************************************************************)
ROk(v) == [err |-> "none", v |-> v]

RErr(e) == [err |-> e, v |-> VNone]

\* Value::string_utf8_from_unicode_scalars: 4 big-endian bytes per scalar
RECURSIVE ScalarsFromBytes(_, _)
ScalarsFromBytes(bs, i) ==
    IF i + 3 > Len(bs) THEN <<>>
    ELSE <<65536 * bs[i + 1] + 256 * bs[i + 2] + bs[i + 3]>>
         \o ScalarsFromBytes(bs, i + 4)

read_indirect_offset_and_length(mem, offset) ==
    IF ~InBounds(offset, 8) THEN [err |-> "Runtime", offset |-> 0, length |-> 0]
    ELSE [err |-> "none",
          offset |-> I32FromLe(MemRead(mem, offset, 4)),
          length |-> I32FromLe(MemRead(mem, offset + 4, 4))]

\* the err arm looked for right after the indicator
ErrAfterIndicator(ty, offset) == offset + 4

\* where the reader looks for the err arm of a response
ResponseErrOffset(ty, offset) == offset + 4 + get_type_size(ty.ok)

RECURSIVE read_from_wasm(_, _, _, _)
RECURSIVE read_from_wasm_indirect(_, _, _)
RECURSIVE ReadListElems(_, _, _, _, _)
RECURSIVE ReadTupleFields(_, _, _, _, _)

\* the while loop of the list arm; acc holds the items read so far
ReadListElems(mem, elem_ty, current_offset, end, acc) ==
    IF ~(current_offset < end) THEN ROk(acc)
    ELSE LET e == read_from_wasm_indirect(mem, elem_ty, current_offset)
         IN  IF e.err # "none" THEN e
             ELSE ReadListElems(mem, elem_ty,
                                current_offset + get_type_size(elem_ty), end,
                                Append(acc, e.v))

ReadTupleFields(mem, fs, i, current_offset, acc) ==
    IF i > Len(fs) THEN ROk(acc)
    ELSE LET f == read_from_wasm_indirect(mem, fs[i].t, current_offset)
         IN  IF f.err # "none" THEN f
             ELSE ReadTupleFields(mem, fs, i + 1,
                                  current_offset + get_type_size(fs[i].t),
                                  Append(acc, [name |-> fs[i].name, v |-> f.v]))

read_from_wasm(mem, ty, offset, length) ==
    CASE ty.k \in {"int", "uint"} ->
            IF ~InBounds(offset, 16) THEN RErr("Runtime")
            ELSE LET low == MemRead(mem, offset, 8)
                     high == MemRead(mem, offset + 8, 8)
                 IN  ROk([k |-> ty.k, bytes |-> low \o high])
      [] ty.k = "ascii" ->
            IF ~InBounds(offset, length) THEN RErr("Runtime")
            ELSE LET buffer == MemRead(mem, offset, length)
                 IN  IF \A i \in 1..length : buffer[i] < 128
                     THEN ROk(VAscii(buffer))
                     ELSE RErr("InvalidCharactersDetected")
      [] ty.k = "utf8" ->
            IF ~InBounds(offset, length) THEN RErr("Runtime")
            ELSE ROk(VUtf8(ScalarsFromBytes(MemRead(mem, offset, length), 1)))
      [] ty.k = "principal" ->
            IF ~InBounds(offset, 22) THEN RErr("Runtime")
            ELSE LET version == MemRead(mem, offset, 1)
                     hash == MemRead(mem, offset + 1, 20)
                     contract_length == MemRead(mem, offset + 21, 1)[1]
                 IN  IF contract_length = 0
                     THEN ROk(VPrincipal(version[1], hash, <<>>))
                     ELSE IF ~InBounds(offset + 22, contract_length)
                     THEN RErr("Runtime")
                     ELSE ROk(VPrincipal(version[1], hash,
                                 MemRead(mem, offset + 22, contract_length)))
      [] ty.k = "buff" ->
            IF ~InBounds(offset, length) THEN RErr("Runtime")
            ELSE ROk(VBuff(MemRead(mem, offset, length)))
      [] ty.k = "list" ->
            LET r == ReadListElems(mem, ty.t, offset, offset + length, <<>>)
            IN  IF r.err # "none" THEN r ELSE ROk(ConsList(r.v))
      [] ty.k = "bool" ->
            IF ~InBounds(offset, 4) THEN RErr("Runtime")
            ELSE ROk(VBool(I32FromLe(MemRead(mem, offset, 4)) # 0))
      [] ty.k = "tuple" ->
            LET r == ReadTupleFields(mem, ty.fs, 1, offset, <<>>)
            IN  IF r.err # "none" THEN r ELSE ROk(VTuple(r.v))
      [] ty.k = "resp" ->
            IF ~InBounds(offset, 4) THEN RErr("Runtime")
            ELSE LET indicator == I32FromLe(MemRead(mem, offset, 4))
                 IN  IF indicator = 0
                     THEN LET e == read_from_wasm_indirect(
                                      mem, ty.err, ResponseErrOffset(ty, offset))
                          IN  IF e.err # "none" THEN e ELSE ROk(VErr(e.v))
                     ELSE IF indicator = 1
                     THEN LET o == read_from_wasm_indirect(mem, ty.ok, offset + 4)
                          IN  IF o.err # "none" THEN o ELSE ROk(VOk(o.v))
                     ELSE RErr("InvalidIndicator")
      [] ty.k = "opt" ->
            IF ~InBounds(offset, 4) THEN RErr("Runtime")
            ELSE LET indicator == I32FromLe(MemRead(mem, offset, 4))
                 IN  IF indicator = 0 THEN ROk(VNone)
                     ELSE IF indicator = 1
                     THEN LET o == read_from_wasm_indirect(mem, ty.t, offset + 4)
                          IN  IF o.err # "none" THEN o ELSE ROk(VSome(o.v))
                     ELSE RErr("InvalidIndicator")
      \* TypeSignature::NoType => todo!(..)
      [] ty.k = "notype" -> RErr("panic")

read_from_wasm_indirect(mem, ty, offset) ==
    IF is_in_memory_type(ty)
    THEN LET ind == read_indirect_offset_and_length(mem, offset)
         IN  IF ind.err # "none" THEN RErr(ind.err)
             ELSE read_from_wasm(mem, ty, ind.offset, ind.length)
    ELSE read_from_wasm(mem, ty, offset, get_type_size(ty))

(***************************************************************************)
(* words/equal.rs: is-eq.  A local holds an i32 (a number) or an i64 (its  *)
(* 8 little-endian bytes).                                                 *)
(***************************************************************************)
\* generator.read_from_memory: the flat slots of the value of type ty that
\* lies at offset in its in-memory representation
RECURSIVE read_from_memory(_, _, _)
RECURSIVE ReadTupleSlots(_, _, _, _)
ReadTupleSlots(mem, fs, i, offset) ==
    IF i > Len(fs) THEN <<>>
    ELSE read_from_memory(mem, fs[i].t, offset)
         \o ReadTupleSlots(mem, fs, i + 1, offset + get_type_size(fs[i].t))

read_from_memory(mem, ty, offset) ==
    CASE ty.k \in {"int", "uint"} ->
            <<MemRead(mem, offset, 8), MemRead(mem, offset + 8, 8)>>
      [] ty.k \in {"bool", "notype"} -> <<I32FromLe(MemRead(mem, offset, 4))>>
      [] is_in_memory_type(ty) ->
            <<I32FromLe(MemRead(mem, offset, 4)),
              I32FromLe(MemRead(mem, offset + 4, 4))>>
      [] ty.k = "opt" ->
            <<I32FromLe(MemRead(mem, offset, 4))>>
            \o read_from_memory(mem, ty.t, offset + 4)
      [] ty.k = "resp" ->
            <<I32FromLe(MemRead(mem, offset, 4))>>
            \o read_from_memory(mem, ty.ok, offset + 4)
            \o read_from_memory(mem, ty.err, offset + 4 + get_type_size(ty.ok))
      [] ty.k = "tuple" -> ReadTupleSlots(mem, ty.fs, 1, offset)

\* the span of field i of a tuple within the tuple's locals
FieldStart(fs, i) == Len(TupleSlots(fs, 1)) - Len(TupleSlots(fs, i)) + 1

FieldEnd(fs, i) == Len(TupleSlots(fs, 1)) - Len(TupleSlots(fs, i + 1))

\* the locals after the stack values `vals` (shaped by current_ty) have been
\* assigned to `locals` (shaped by original_ty)
RECURSIVE assign_to_locals(_, _, _, _)
RECURSIVE AssignTupleFields(_, _, _, _, _)
AssignTupleFields(t, s, i, locals, vals) ==
    IF i > Len(t) \/ i > Len(s) THEN <<>>
    ELSE assign_to_locals(t[i].t, s[i].t,
                          SubSeq(locals, FieldStart(t, i), FieldEnd(t, i)),
                          SubSeq(vals, FieldStart(s, i), FieldEnd(s, i)))
         \o AssignTupleFields(t, s, i + 1, locals, vals)

assign_to_locals(original_ty, current_ty, locals, vals) ==
    IF original_ty.k = "notype" \/ current_ty.k = "notype" THEN locals
    ELSE IF original_ty.k = "opt" /\ current_ty.k = "opt"
    THEN <<vals[1]>>
         \o assign_to_locals(original_ty.t, current_ty.t, Tail(locals), Tail(vals))
    ELSE IF original_ty.k = "resp" /\ current_ty.k = "resp"
    THEN LET first_ok_size == Len(clar2wasm_ty(original_ty.ok))
             cur_ok_size == Len(clar2wasm_ty(current_ty.ok))
         IN  <<vals[1]>>
             \o assign_to_locals(original_ty.ok, current_ty.ok,
                                 SubSeq(locals, 2, 1 + first_ok_size),
                                 SubSeq(vals, 2, 1 + cur_ok_size))
             \o assign_to_locals(original_ty.err, current_ty.err,
                                 SubSeq(locals, 2 + first_ok_size, Len(locals)),
                                 SubSeq(vals, 2 + cur_ok_size, Len(vals)))
    ELSE IF original_ty.k = "tuple" /\ current_ty.k = "tuple"
    THEN AssignTupleFields(original_ty.fs, current_ty.fs, 1, locals, vals)
    ELSE vals

\* module.locals.add for every slot of ty: Wasm locals start at zero
FreshLocals(ty) ==
    [i \in 1..Len(clar2wasm_ty(ty)) |->
        IF clar2wasm_ty(ty)[i] = "i64" THEN [j \in 1..8 |-> 0] ELSE 0]

\* stdlib.is-eq-int on (a_lo, a_hi, b_lo, b_hi)
is_eq_int(ops) == IF ops[1] = ops[3] /\ ops[2] = ops[4] THEN 1 ELSE 0

\* stdlib.is-eq-bytes on (offset_a, length_a, offset_b, length_b)
is_eq_bytes(mem, ops) ==
    IF ops[2] = ops[4] /\ MemRead(mem, ops[1], ops[2]) = MemRead(mem, ops[3], ops[4])
    THEN 1 ELSE 0

\* the outcome of code that runs into an unreachable instruction
Unreachable == -1

\* What the code emitted by wasm_equal computes: v is the i32 it leaves on the
\* stack (Unreachable when it traps), first and nth are the two sets of locals
\* afterwards
EqR(v, first, nth) == [v |-> v, first |-> first, nth |-> nth]

RECURSIVE wasm_equal(_, _, _, _, _)
RECURSIVE wasm_equal_tuple(_, _, _, _, _, _)
RECURSIVE comparison_loop(_, _, _, _, _, _)

\* the loop of wasm_equal_list on the locals offset_a, len_a and offset_b
comparison_loop(mem, list_ty, nth_list_ty, offset_a, len_a, offset_b) ==
    LET first_locals == assign_to_locals(list_ty, list_ty, FreshLocals(list_ty),
                            read_from_memory(mem, list_ty, offset_a))
        nth_locals == assign_to_locals(list_ty, nth_list_ty, FreshLocals(list_ty),
                          read_from_memory(mem, nth_list_ty, offset_b))
        r == wasm_equal(mem, list_ty, nth_list_ty, first_locals, nth_locals)
        offset_delta_a == get_type_size(list_ty)
        offset_delta_b == get_type_size(nth_list_ty)
    IN  IF r.v = Unreachable THEN EqR(Unreachable, <<offset_a, len_a>>, <<offset_b>>)
        ELSE IF r.v = 0 THEN EqR(0, <<offset_a, len_a>>, <<offset_b>>)
        ELSE IF len_a - offset_delta_a # 0
        THEN comparison_loop(mem, list_ty, nth_list_ty,
                             offset_a + offset_delta_a, len_a - offset_delta_a,
                             offset_b + offset_delta_b)
        ELSE EqR(1, <<offset_a + offset_delta_a, len_a - offset_delta_a>>,
                 <<offset_b + offset_delta_b>>)

\* the if-else chain over the fields i..Len(fs), in layout order
wasm_equal_tuple(mem, fs, nth_fs, i, first_op, nth_op) ==
    LET r == wasm_equal(mem, fs[i].t, nth_fs[i].t,
                        SubSeq(first_op, FieldStart(fs, i), FieldEnd(fs, i)),
                        SubSeq(nth_op, FieldStart(fs, i), FieldEnd(fs, i)))
        first == SubSeq(first_op, 1, FieldStart(fs, i) - 1) \o r.first
                 \o SubSeq(first_op, FieldEnd(fs, i) + 1, Len(first_op))
        nth == SubSeq(nth_op, 1, FieldStart(fs, i) - 1) \o r.nth
               \o SubSeq(nth_op, FieldEnd(fs, i) + 1, Len(nth_op))
    IN  IF i = Len(fs) \/ r.v # 1 THEN EqR(r.v, first, nth)
        ELSE wasm_equal_tuple(mem, fs, nth_fs, i + 1, first, nth)

wasm_equal(mem, ty, nth_ty, first_op, nth_op) ==
    LET no_type_match == EqR(0, first_op, nth_op)
    IN
    CASE ty.k = "notype" -> EqR(Unreachable, first_op, nth_op)
      [] ty.k = "bool" ->
            EqR(IF first_op[1] = nth_op[1] THEN 1 ELSE 0, first_op, nth_op)
      [] ty.k \in {"int", "uint"} ->
            IF ty = nth_ty THEN EqR(is_eq_int(first_op \o nth_op), first_op, nth_op)
            ELSE no_type_match
      [] ty.k \in {"buff", "ascii", "principal"} ->
            IF ty = nth_ty
            THEN EqR(is_eq_bytes(mem, first_op \o nth_op), first_op, nth_op)
            ELSE no_type_match
      [] ty.k = "opt" ->
            IF nth_ty.k # "opt" THEN no_type_match
            ELSE IF first_op[1] # nth_op[1] THEN no_type_match
            ELSE IF ty.t.k = "notype" THEN EqR(1, first_op, nth_op)
            ELSE LET r == wasm_equal(mem, ty.t, nth_ty.t,
                                     Tail(first_op), Tail(nth_op))
                     is_none == IF first_op[1] = 0 THEN 1 ELSE 0
                 IN  EqR(IF r.v = Unreachable THEN Unreachable ELSE Max(is_none, r.v),
                         <<first_op[1]>> \o r.first, <<nth_op[1]>> \o r.nth)
      [] ty.k = "resp" ->
            IF nth_ty.k # "resp" THEN no_type_match
            ELSE IF first_op[1] # nth_op[1] THEN no_type_match
            ELSE LET split == Len(clar2wasm_ty(ty.ok))
                     nth_split == Len(clar2wasm_ty(nth_ty.ok))
                     first_ok == SubSeq(first_op, 2, 1 + split)
                     first_err == SubSeq(first_op, 2 + split, Len(first_op))
                     nth_ok == SubSeq(nth_op, 2, 1 + nth_split)
                     nth_err == SubSeq(nth_op, 2 + nth_split, Len(nth_op))
                 IN  IF first_op[1] = 0
                     THEN LET r == wasm_equal(mem, ty.err, nth_ty.err,
                                              first_err, nth_err)
                          IN  EqR(r.v, <<first_op[1]>> \o first_ok \o r.first,
                                  <<nth_op[1]>> \o nth_ok \o r.nth)
                     ELSE LET r == wasm_equal(mem, ty.ok, nth_ty.ok,
                                              first_ok, nth_ok)
                          IN  EqR(r.v, <<first_op[1]>> \o r.first \o first_err,
                                  <<nth_op[1]>> \o r.nth \o nth_err)
      [] ty.k = "tuple" ->
            IF nth_ty.k # "tuple" THEN no_type_match
            ELSE wasm_equal_tuple(mem, ty.fs, nth_ty.fs, 1, first_op, nth_op)
      [] ty.k = "list" ->
            IF nth_ty.k # "list" THEN no_type_match
            ELSE LET offset_a == first_op[1]
                     len_a == first_op[2]
                     offset_b == nth_op[1]
                     len_b == nth_op[2]
                 IN  IF len_a \div get_type_size(ty.t)
                        # len_b \div get_type_size(nth_ty.t)
                     THEN no_type_match
                     ELSE IF len_a = 0 THEN EqR(1, first_op, nth_op)
                     ELSE LET l == comparison_loop(mem, ty.t, nth_ty.t,
                                                   offset_a, len_a, offset_b)
                          IN  EqR(IF l.v = Unreachable THEN Unreachable
                                  ELSE IF l.first[2] = 0 THEN 1 ELSE 0,
                                  l.first, <<l.nth[1], len_b>>)

\* Whether wasm_equal can emit its code: "ok", the GeneratorError it returns,
\* or "InvalidModule" when the call it emits does not have the operands the
\* callee takes.  n_first and n_nth are the numbers of locals it is handed.
RECURSIVE wasm_equal_gen(_, _, _, _)
RECURSIVE WasmEqualGenFields(_, _, _)
WasmEqualGenFields(fs, nth_fs, i) ==
    IF i > Len(fs) THEN "ok"
    ELSE LET n == Len(clar2wasm_ty(fs[i].t))
             g == wasm_equal_gen(fs[i].t, nth_fs[i].t, n, n)
         IN  IF g # "ok" THEN g ELSE WasmEqualGenFields(fs, nth_fs, i + 1)

wasm_equal_gen(ty, nth_ty, n_first, n_nth) ==
    CASE ty.k \in {"notype", "bool"} -> "ok"
      [] ty.k \in {"int", "uint", "buff", "ascii", "principal"} ->
            IF ty = nth_ty /\ n_first + n_nth # 4 THEN "InvalidModule" ELSE "ok"
      [] ty.k = "opt" ->
            IF nth_ty.k # "opt" \/ ty.t.k = "notype" THEN "ok"
            ELSE wasm_equal_gen(ty.t, nth_ty.t, n_first - 1, n_nth - 1)
      [] ty.k = "resp" ->
            IF nth_ty.k # "resp" THEN "ok"
            ELSE LET split == Len(clar2wasm_ty(ty.ok))
                     nth_split == Len(clar2wasm_ty(nth_ty.ok))
                     ok == wasm_equal_gen(ty.ok, nth_ty.ok, split, nth_split)
                 IN  IF ok # "ok" THEN ok
                     ELSE wasm_equal_gen(ty.err, nth_ty.err,
                                         n_first - 1 - split, n_nth - 1 - nth_split)
      [] ty.k = "tuple" ->
            IF nth_ty.k # "tuple" THEN "ok"
            ELSE WasmEqualGenFields(ty.fs, nth_ty.fs, 1)
      [] ty.k = "list" ->
            IF nth_ty.k # "list" THEN "ok"
            ELSE IF n_first # 2 \/ n_nth # 2 THEN "InternalError"
            ELSE wasm_equal_gen(ty.t, nth_ty.t, Len(clar2wasm_ty(ty.t)),
                                Len(clar2wasm_ty(ty.t)))
      [] ty.k = "utf8" -> "NotImplemented"

(***************************************************************************)
(* Marshalling round trip: a value is written under a type and read back   *)
(***************************************************************************)
VARIABLES
    memory,      \* the linear memory of the instance
    m_ty,        \* the type the value is written and read under
    m_value,     \* the value handed to write_to_wasm
    m_offset,    \* the primary offset
    m_pc,        \* "init", "written", "read"
    m_written,   \* the result of write_to_wasm
    m_read       \* the result of read_from_wasm_indirect

\* (is-eq a1 .. aN)
VARIABLES
    e_ops,       \* the operands: <<type of the expression, its value>>
    e_pc,        \* "compile", "first", "nth", "done", "error", "trap"
    e_i,         \* the operand that is evaluated next
    e_val,       \* val_locals: the locals that hold the first operand
    e_nth,       \* nth_locals: the locals that hold the current operand
    e_acc,       \* the i32 accumulator on the stack
    e_sp,        \* where the next operand is laid out in memory
    e_err        \* the error that ended the compilation or the run

\* (op a1 .. aN) for an arithmetic op
VARIABLES
    a_op,        \* "add", "sub", "mul", "div", "mod"
    a_ty,        \* the return type: "int" or "uint"
    a_args,      \* the values of the arguments
    a_stack,     \* the evaluation stack: 128-bit values as 16 bytes
    a_pc,        \* "push", "call", "done", "trap", "reported"
    a_calls,     \* the calls of the stdlib function made so far
    a_code,      \* the global runtime-error-code
    a_error      \* the error the invocation is reported with

\* (and e1 .. en) and (or e1 .. en)
VARIABLES
    s_invert,    \* FALSE for and, TRUE for or
    s_args,      \* the value each operand yields when it is evaluated
    s_stack,     \* the i32 on top of the stack
    s_next,      \* the IfElse that is run next
    s_evaluated, \* the operands evaluated so far, in the order of evaluation
    s_pc         \* "start", "run", "done"

\* (filter discriminator sequence)
VARIABLES
    f_list,      \* the elements of the input list
    f_pred,      \* the discriminator
    f_input_offset,  \* the local input_offset
    f_input_end, \* the local input_end
    f_output_offset, \* the local output_offset
    f_output_len, \* the local output_len
    f_sp,        \* the global stack-pointer
    f_pc         \* "setup", "loop", "done"

\* the invocations of a function whose body holds an unwrap!
VARIABLES
    u_body,      \* the forms of the function's body
    u_inputs,    \* the argument x of the invocation at each depth
    u_dalloc,    \* does the fallback expression allocate
    u_frames,    \* the invocations in progress, the current one last
    u_sp,        \* the global stack-pointer
    u_log        \* the invocations that have returned

\* (match match_on success_binding success_body ..)
VARIABLES
    g_args,      \* the form: type and value of match_on, the names, the bindings before it
    g_bindings,  \* generator.bindings: name -> local, 0 when unbound
    g_saved,     \* saved_bindings
    g_locals,    \* the locals of the function: their number, ok_locals, err_locals
    g_blocks,    \* the bindings each arm was lowered under
    g_pc,        \* "start", "success", "other", "emit", "run", "done", "error"
    g_ran,       \* the arms that were run
    g_result     \* the value the form has left

\* (define-data-var name type initial), var-set and var-get within one call
VARIABLES
    d_var,       \* the definition: the declared type and the initial value
    d_datavars_types,\* the type recorded in generator.datavars_types, <<>> before
    d_imposed,   \* the type set on the value argument of the last var-set
    d_store,     \* the host's value of the variable
    d_last,      \* the value of the most recent var-set, or the initial value
    d_stack,     \* what the last form has left on the stack
    d_sp,        \* the end of the literal memory, then the stack pointer
    d_ops,       \* the var-set and var-get forms run so far
    d_pc         \* "define", "run", "mistyped"

\* the compilation of a contract made of definitions
VARIABLES
    n_contract,  \* the definitions: form and name
    n_epoch,     \* the epoch the contract is compiled for
    n_tables,    \* the names in the generator's tables, by form
    n_i,         \* the definition that is lowered next
    n_pc,        \* "analysis", "generate", "ok", "failed"
    n_err        \* the error that ended the compilation

\* argument counts: is-some, is-none, stx-transfer?, stx-transfer-memo?
VARIABLES
    c_form,      \* the form that is applied
    c_n,         \* the number of arguments it is applied to
    c_pool,      \* the literal pool: the byte regions, in order
    c_globals,   \* runtime-error-code, runtime-error-arg-offset, runtime-error-arg-len
    c_pc,        \* start, emitted, trap, returned, reported, generator-error, panic
    c_error      \* what resolve_error returned

\* resolve_error
VARIABLES
    r_root,      \* the type of the root cause of the error
    r_trap,      \* the trap, when the root cause is one
    r_globals,   \* runtime-error-code, runtime-error-arg-offset, runtime-error-arg-len
    r_thrown,    \* what the globals of the short return designate
    r_variant,   \* the ErrorMap variant runtime-error-code was converted to
    r_pc,        \* error, check-errors, trap, other, returned, panic
    r_result     \* the Error that is returned

\* the order in which arguments are evaluated
VARIABLES
    t_form,      \* the form that is applied
    t_n,         \* the number of its arguments
    t_fail,      \* the argument whose evaluation traps, -1 when none does
    t_code,      \* the instructions emitted for the form
    t_ip,        \* the instruction that runs next
    t_trace,     \* what has run: evaluations of arguments and writes to memory
    t_pc         \* start, run, trap, done

\* the STX ledger: stx-burn?, stx-transfer?, stx-transfer-memo?, stx-get-balance
VARIABLES
    l_balances,  \* the STX balance of every principal
    l_tx_sender, \* tx-sender
    l_pc,            \* a-balance, b-form, c-balance, done: the fields of the tuple
    l_prev,      \* the form evaluated before the last one
    l_last       \* the form evaluated last, its arguments and its result

\* tools.rs: crosscheck, crosscheck_compare_only, crosscheck_compare_only_advancing_tip
VARIABLES
    x_fn,        \* the function that is called
    x_count,     \* the count the chain tip is advanced by
    x_snippet,   \* what the snippet reads
    x_compiler_env,\* the TestEnvironment of the compiled run
    x_interpreter_env,\* the TestEnvironment of the interpreted run
    x_compiled,  \* the state the compiled snippet starts from, and its result
    x_interpreted,\* the state the interpreted snippet starts from, and its result
    x_pc         \* compiler-env, interpreter-env, evaluate, interpret, assert, passed, failed

\* ab-tester: ChainStateReplayer::replay
VARIABLES
    p_blocks,    \* the blocks the source yields, in order
    p_opts,      \* from_height, to_height, max_blocks (-1 for None)
    p_i,         \* the index of the block the loop is at
    p_count,     \* processed_block_count
    p_log,       \* the callbacks called and the operations on the target, in order
    p_pc,        \* start, loop, block, finish-block, finish, done
    p_result     \* running, ok, graceful, error

\* ab-tester: RecordCursor
VARIABLES
    k_rows,      \* the number of rows of the query; the rows are 1..k_rows in query order
    k_capacity,  \* buffer.capacity()
    k_cursor,    \* cursor
    k_buffer,    \* buffer
    k_requests,  \* the pages requested, as offset and limit, in order
    k_yielded,   \* the rows that next has returned as Some(Ok), in order
    k_failed,    \* the number of page loads that failed
    k_before,    \* the cursor before the last call of next
    k_last       \* what the last call of next returned: Ok, Err, None

\* tools::execute
VARIABLES
    ex_store,     \* the committed value of the database
    ex_open,      \* the values of the open transactions, innermost last
    ex_log,       \* what the current call of execute has done, in order
    ex_closure,   \* what the closure returned: Ok, Err, or not-run
    ex_result,    \* what execute returned: Ok, Err, panic, or running
    ex_calls,     \* the number of calls of execute so far
    ex_pc         \* call, begun, ran, returned

\* tools.rs: TestEnvironment::init_contract_with_snippet
VARIABLES
    ic_analysis, \* the contracts whose analysis is in the datastore
    ic_hash,     \* the contracts whose hash is in the datastore
    ic_contracts,\* the contracts whose context and data size are in the datastore
    ic_pending,  \* the contracts written in the open transaction of global_context
    ic_contexts, \* the keys of self.contract_contexts
    ic_wasm_cost,\* self.wasm_cost
    ic_name,     \* contract_name of the current call
    ic_snippet,  \* what the snippet does: ok, compile-error, runtime-error
    ic_before,   \* the environment when the current call began
    ic_calls,    \* the number of calls so far
    ic_result,   \* what the call returned: Ok, Err, panic, or running
    ic_pc        \* call, compile, analysis, begin, initialize, store, returned

memVars == <<m_ty, m_value, m_offset, m_pc, m_written, m_read>>

eqVars == <<e_ops, e_pc, e_i, e_val, e_nth, e_acc, e_sp, e_err>>

arVars == <<a_op, a_ty, a_args, a_stack, a_pc, a_calls, a_code, a_error>>

scVars == <<s_invert, s_args, s_stack, s_next, s_evaluated, s_pc>>

fVars == <<f_list, f_pred, f_input_offset, f_input_end, f_output_offset, f_output_len, f_sp, f_pc>>

uVars == <<u_body, u_inputs, u_dalloc, u_frames, u_sp, u_log>>

gVars == <<g_args, g_bindings, g_saved, g_locals, g_blocks, g_pc, g_ran, g_result>>

dVars == <<d_var, d_datavars_types, d_imposed, d_store, d_last, d_stack, d_sp, d_ops, d_pc>>

nVars == <<n_contract, n_epoch, n_tables, n_i, n_pc, n_err>>

cVars == <<c_form, c_n, c_pool, c_globals, c_pc, c_error>>

rVars == <<r_root, r_trap, r_globals, r_thrown, r_variant, r_pc, r_result>>

tVars == <<t_form, t_n, t_fail, t_code, t_ip, t_trace, t_pc>>

lVars == <<l_balances, l_tx_sender, l_pc, l_prev, l_last>>

xVars == <<x_fn, x_count, x_snippet, x_compiler_env, x_interpreter_env, x_compiled, x_interpreted, x_pc>>

pVars == <<p_blocks, p_opts, p_i, p_count, p_log, p_pc, p_result>>

kVars == <<k_rows, k_capacity, k_cursor, k_buffer, k_requests, k_yielded, k_failed, k_before, k_last>>

eVars == <<ex_store, ex_open, ex_log, ex_closure, ex_result, ex_calls, ex_pc>>

icVars == <<ic_analysis, ic_hash, ic_contracts, ic_pending, ic_contexts, ic_wasm_cost, ic_name, ic_snippet, ic_before, ic_calls, ic_result, ic_pc>>

vars == <<memory, memVars, eqVars, arVars, scVars, fVars, uVars, gVars, dVars, nVars, cVars, rVars, tVars, lVars, xVars, pVars, kVars, eVars, icVars>>

\* what the steps of one form leave alone
notMem == <<eqVars, arVars, scVars, fVars, uVars, gVars, dVars, nVars, cVars, rVars, tVars, lVars, xVars, pVars, kVars, eVars, icVars>>

notEq == <<memVars, arVars, scVars, fVars, uVars, gVars, dVars, nVars, cVars, rVars, tVars, lVars, xVars, pVars, kVars, eVars, icVars>>

notAr == <<memory, memVars, eqVars, scVars, fVars, uVars, gVars, dVars, nVars, cVars, rVars, tVars, lVars, xVars, pVars, kVars, eVars, icVars>>

notSc == <<memory, memVars, eqVars, arVars, fVars, uVars, gVars, dVars, nVars, cVars, rVars, tVars, lVars, xVars, pVars, kVars, eVars, icVars>>

notFi == <<memVars, eqVars, arVars, scVars, uVars, gVars, dVars, nVars, cVars, rVars, tVars, lVars, xVars, pVars, kVars, eVars, icVars>>

notFn == <<memVars, eqVars, arVars, scVars, fVars, gVars, dVars, nVars, cVars, rVars, tVars, lVars, xVars, pVars, kVars, eVars, icVars>>

notMa == <<memVars, eqVars, arVars, scVars, fVars, uVars, dVars, nVars, cVars, rVars, tVars, lVars, xVars, pVars, kVars, eVars, icVars>>

notDv == <<memVars, eqVars, arVars, scVars, fVars, uVars, gVars, nVars, cVars, rVars, tVars, lVars, xVars, pVars, kVars, eVars, icVars>>

notNm == <<memVars, eqVars, arVars, scVars, fVars, uVars, gVars, dVars, cVars, rVars, tVars, lVars, xVars, pVars, kVars, eVars, icVars>>

notAc == <<memVars, eqVars, arVars, scVars, fVars, uVars, gVars, dVars, nVars, rVars, tVars, lVars, xVars, pVars, kVars, eVars, icVars>>

notRs == <<memVars, eqVars, arVars, scVars, fVars, uVars, gVars, dVars, nVars, cVars, tVars, lVars, xVars, pVars, kVars, eVars, icVars>>

notTr == <<memVars, eqVars, arVars, scVars, fVars, uVars, gVars, dVars, nVars, cVars, rVars, lVars, xVars, pVars, kVars, eVars, icVars>>

notLg == <<memVars, eqVars, arVars, scVars, fVars, uVars, gVars, dVars, nVars, cVars, rVars, tVars, xVars, pVars, kVars, eVars, icVars>>

notXc == <<memVars, eqVars, arVars, scVars, fVars, uVars, gVars, dVars, nVars, cVars, rVars, tVars, lVars, pVars, kVars, eVars, icVars>>

notRp == <<memVars, eqVars, arVars, scVars, fVars, uVars, gVars, dVars, nVars, cVars, rVars, tVars, lVars, xVars, kVars, eVars, icVars>>

notKc == <<memVars, eqVars, arVars, scVars, fVars, uVars, gVars, dVars, nVars, cVars, rVars, tVars, lVars, xVars, pVars, eVars, icVars>>

notEx == <<memVars, eqVars, arVars, scVars, fVars, uVars, gVars, dVars, nVars, cVars, rVars, tVars, lVars, xVars, pVars, kVars, icVars>>

notIc == <<memVars, eqVars, arVars, scVars, fVars, uVars, gVars, dVars, nVars, cVars, rVars, tVars, lVars, xVars, pVars, kVars, eVars>>

\* the variables of a form that is not being run
MemIdle ==
    /\ m_ty = TNoType /\ m_value = VNone /\ m_offset = 0 /\ m_pc = "idle"
    /\ m_written = <<>> /\ m_read = <<>>

EqIdle ==
    /\ e_ops = <<>> /\ e_pc = "idle" /\ e_i = 0 /\ e_val = <<>> /\ e_nth = <<>>
    /\ e_acc = 0 /\ e_sp = 0 /\ e_err = "none"

ArIdle ==
    /\ a_op = "none" /\ a_ty = "none" /\ a_args = <<>> /\ a_stack = <<>>
    /\ a_pc = "idle" /\ a_calls = 0 /\ a_code = -1 /\ a_error = "none"

ScIdle ==
    /\ s_invert = FALSE /\ s_args = <<>> /\ s_stack = 0 /\ s_next = 0
    /\ s_evaluated = <<>> /\ s_pc = "idle"

FiIdle ==
    /\ f_list = <<>> /\ f_pred = "none" /\ f_input_offset = 0 /\ f_input_end = 0
    /\ f_output_offset = 0 /\ f_output_len = 0 /\ f_sp = 0 /\ f_pc = "idle"

FnIdle ==
    /\ u_body = <<>> /\ u_inputs = <<>> /\ u_dalloc = FALSE /\ u_frames = <<>>
    /\ u_sp = 0 /\ u_log = <<>>

MaIdle ==
    /\ g_args = <<>> /\ g_bindings = <<>> /\ g_saved = <<>> /\ g_locals = <<>>
    /\ g_blocks = <<>> /\ g_pc = "idle" /\ g_ran = <<>> /\ g_result = 0

DvIdle ==
    /\ d_var = <<>> /\ d_datavars_types = <<>> /\ d_imposed = <<>> /\ d_store = <<>>
    /\ d_last = <<>> /\ d_stack = <<>> /\ d_sp = 0 /\ d_ops = 0 /\ d_pc = "idle"

NmIdle ==
    /\ n_contract = <<>> /\ n_epoch = "none" /\ n_tables = {} /\ n_i = 0
    /\ n_pc = "idle" /\ n_err = "none"

AcIdle ==
    /\ c_form = "none" /\ c_n = 0 /\ c_pool = <<>> /\ c_globals = <<>>
    /\ c_pc = "idle" /\ c_error = [k |-> "none"]

RsIdle ==
    /\ r_root = "none" /\ r_trap = "none" /\ r_globals = <<>> /\ r_thrown = <<>>
    /\ r_variant = "none" /\ r_pc = "idle" /\ r_result = "none"

TrIdle ==
    /\ t_form = "none" /\ t_n = 0 /\ t_fail = -1 /\ t_code = <<>> /\ t_ip = 0
    /\ t_trace = <<>> /\ t_pc = "idle"

LgIdle ==
    /\ l_balances = <<>> /\ l_tx_sender = "none" /\ l_pc = "idle"
    /\ l_prev = <<>> /\ l_last = <<>>

XcIdle ==
    /\ x_fn = "none" /\ x_count = 0 /\ x_snippet = "none" /\ x_compiler_env = <<>>
    /\ x_interpreter_env = <<>> /\ x_compiled = <<>> /\ x_interpreted = <<>>
    /\ x_pc = "idle"

RpIdle ==
    /\ p_blocks = <<>> /\ p_opts = <<>> /\ p_i = 0 /\ p_count = 0 /\ p_log = <<>>
    /\ p_pc = "idle" /\ p_result = "none"

KcIdle ==
    /\ k_rows = 0 /\ k_capacity = 0 /\ k_cursor = 0 /\ k_buffer = <<>> /\ k_requests = <<>>
    /\ k_yielded = <<>> /\ k_failed = 0 /\ k_before = 0 /\ k_last = "idle"

ExIdle ==
    /\ ex_store = 0 /\ ex_open = <<>> /\ ex_log = <<>> /\ ex_closure = "idle"
    /\ ex_result = "idle" /\ ex_calls = 0 /\ ex_pc = "idle"

IcIdle ==
    /\ ic_analysis = {} /\ ic_hash = {} /\ ic_contracts = {} /\ ic_pending = {}
    /\ ic_contexts = {} /\ ic_wasm_cost = 0 /\ ic_name = "" /\ ic_snippet = ""
    /\ ic_before = <<>> /\ ic_calls = 0 /\ ic_result = "idle" /\ ic_pc = "idle"

\* every form but the one that is run is idle
OthersIdle(form) ==
    /\ IF form = "mem" THEN TRUE ELSE MemIdle
    /\ IF form = "eq" THEN TRUE ELSE EqIdle
    /\ IF form = "ar" THEN TRUE ELSE ArIdle
    /\ IF form = "sc" THEN TRUE ELSE ScIdle
    /\ IF form = "f" THEN TRUE ELSE FiIdle
    /\ IF form = "u" THEN TRUE ELSE FnIdle
    /\ IF form = "g" THEN TRUE ELSE MaIdle
    /\ IF form = "d" THEN TRUE ELSE DvIdle
    /\ IF form = "n" THEN TRUE ELSE NmIdle
    /\ IF form = "c" THEN TRUE ELSE AcIdle
    /\ IF form = "r" THEN TRUE ELSE RsIdle
    /\ IF form = "t" THEN TRUE ELSE TrIdle
    /\ IF form = "l" THEN TRUE ELSE LgIdle
    /\ IF form = "x" THEN TRUE ELSE XcIdle
    /\ IF form = "p" THEN TRUE ELSE RpIdle
    /\ IF form = "k" THEN TRUE ELSE KcIdle
    /\ IF form = "e" THEN TRUE ELSE ExIdle
    /\ IF form = "ic" THEN TRUE ELSE IcIdle

Hash20(b) == [i \in 1..20 |-> b]

TupleAB == TTuple(<<[name |-> "a", t |-> TInt], [name |-> "b", t |-> TBuff(2)]>>)

\* 2^64: the low limb is zero and the high limb is one
VUIntHigh == [k |-> "uint", bytes |-> [i \in 1..16 |-> IF i = 9 THEN 1 ELSE 0]]

\* pairs <<type, value of that type>>
MarshalInputs ==
    { <<TInt, VInt(-2)>>, <<TInt, VInt(300)>>, <<TInt, VInt(0)>>,
      <<TUInt, VUInt(1)>>, <<TUInt, VUIntHigh>>,
      <<TBool, VBool(TRUE)>>, <<TBool, VBool(FALSE)>>,
      <<TBuff(2), VBuff(<<1, 2>>)>>, <<TBuff(2), VBuff(<<>>)>>,
      <<TAscii(2), VAscii(<<97>>)>>,
      <<TUtf8(1), VUtf8(<<97>>)>>,
      <<TPrincipal, VPrincipal(26, Hash20(7), <<>>)>>,
      <<TPrincipal, VPrincipal(26, Hash20(7), <<99, 100>>)>>,
      <<TOpt(TInt), VNone>>, <<TOpt(TInt), VSome(VInt(5))>>,
      <<TOpt(TBuff(2)), VSome(VBuff(<<9>>))>>,
      <<TResp(TInt, TBool), VOk(VInt(1))>>,
      <<TResp(TInt, TBool), VErr(VBool(TRUE))>>,
      <<TResp(TBuff(1), TInt), VOk(VBuff(<<7>>))>>,
      <<TResp(TBuff(1), TInt), VErr(VInt(-1))>>,
      <<TupleAB, VTuple(<<[name |-> "a", v |-> VInt(3)],
                          [name |-> "b", v |-> VBuff(<<4, 5>>)]>>)>>,
      <<TList(TInt, 2), ConsList(<<>>)>>,
      <<TList(TInt, 2), ConsList(<<VInt(1), VInt(2)>>)>>,
      <<TList(TBuff(1), 2), ConsList(<<VBuff(<<1>>), VBuff(<<2>>)>>)>>,
      <<TList(TOpt(TBool), 2), ConsList(<<VNone, VSome(VBool(TRUE))>>)>>,
      <<TList(TResp(TBuff(1), TInt), 2),
        ConsList(<<VOk(VBuff(<<1>>)), VErr(VInt(3))>>)>>,
      <<TList(TResp(TBuff(1), TInt), 2),
        ConsList(<<VOk(VBuff(<<1>>)), VOk(VBuff(<<2>>))>>)>>,
      <<TOpt(TList(TBool, 2)), VSome(ConsList(<<VBool(TRUE), VBool(FALSE)>>))>>,
      <<TOpt(TBuff(2)), VNone>>,
      <<TOpt(TOpt(TInt)), VNone>>, <<TOpt(TOpt(TInt)), VSome(VNone)>>,
      <<TOpt(TOpt(TInt)), VSome(VSome(VInt(5)))>>,
      <<TOpt(TPrincipal), VNone>>,
      <<TOpt(TPrincipal), VSome(VPrincipal(26, Hash20(7), <<99>>))>>,
      <<TResp(TOpt(TBool), TupleAB), VOk(VNone)>>,
      <<TResp(TOpt(TBool), TupleAB), VOk(VSome(VBool(TRUE)))>>,
      <<TResp(TOpt(TBool), TupleAB),
        VErr(VTuple(<<[name |-> "a", v |-> VInt(3)],
                      [name |-> "b", v |-> VBuff(<<4>>)]>>))>> }

\* what the memory holds before the write
FillBytes == {0, 170}

MemInit ==
    /\ \E fill \in FillBytes : memory = [a \in Addr |-> fill]
    /\ \E in \in MarshalInputs : m_ty = in[1] /\ m_value = in[2]
    /\ m_offset \in {0, 4}
    /\ m_pc = "init"
    /\ m_written = WResult(memory, 0, 0, "none")
    /\ m_read = RErr("none")
    /\ OthersIdle("mem")

\* write_to_wasm(store, memory, ty, offset, offset + size, value, true)
MWrite ==
    /\ m_pc = "init"
    /\ LET w == write_to_wasm(memory, m_ty, m_offset,
                              m_offset + get_type_size(m_ty), m_value, TRUE)
       IN  /\ memory' = w.mem
           /\ m_written' = [w EXCEPT !.mem = <<>>]
    /\ m_pc' = "written"
    /\ UNCHANGED <<m_ty, m_value, m_offset, m_read, notMem>>

\* read_from_wasm_indirect(memory, store, ty, offset, epoch)
MRead ==
    /\ m_pc = "written"
    /\ m_written.err = "none"
    /\ m_read' = read_from_wasm_indirect(memory, m_ty, m_offset)
    /\ m_pc' = "read"
    /\ UNCHANGED <<memory, m_ty, m_value, m_offset, m_written, notMem>>

MemNext == MWrite \/ MRead

SpecMem == MemInit /\ [][MemNext]_vars

\* C2: a value of a concrete type written with write_to_wasm and read back
\* with read_from_wasm_indirect at the same offset under the same type is the
\* value that was written
C2_RoundTrip ==
    /\ m_pc = "written" => m_written.err = "none"
    /\ m_pc = "read" => m_read = ROk(m_value)

\* C18: an optional or response value is written as a 4-byte little-endian
\* indicator (0 for none and err, 1 for some and ok) at the offset, followed
\* by the arms; the bytes reported as written at the offset are 4 + the size
\* of the inner type for an optional and 4 + the sizes of the ok and err
\* types for a response, whatever the value; the arm that is present is at
\* offset + 4, except the err arm, which is at offset + 4 + the size of the
\* ok type, where the reader finds it
C18_Indicator ==
    (m_pc \in {"written", "read"} /\ m_ty.k \in {"opt", "resp"}) =>
        /\ m_written.err = "none"
        /\ MemRead(memory, m_offset, 4) =
               I32ToLe(IF m_ty.k = "opt"
                       THEN (IF m_value.some THEN 1 ELSE 0)
                       ELSE (IF m_value.committed THEN 1 ELSE 0))
        /\ m_written.written = get_type_size(m_ty)
        /\ m_ty.k = "opt" =>
               /\ m_written.written = 4 + get_type_size(m_ty.t)
               /\ m_value.some =>
                      read_from_wasm_indirect(memory, m_ty.t, m_offset + 4)
                          = ROk(m_value.data)
        /\ m_ty.k = "resp" =>
               /\ m_written.written =
                      4 + get_type_size(m_ty.ok) + get_type_size(m_ty.err)
               /\ m_value.committed =>
                      read_from_wasm_indirect(memory, m_ty.ok, m_offset + 4)
                          = ROk(m_value.data)
               /\ ~m_value.committed =>
                      read_from_wasm_indirect(memory, m_ty.err,
                          m_offset + 4 + get_type_size(m_ty.ok))
                          = ROk(m_value.data)
               /\ (m_pc = "read" /\ ~m_value.committed) => m_read = ROk(m_value)

\* an err value has been written and read back, under a type whose ok arm
\* is wider than the indicator
C18_Witness ==
    /\ m_pc = "read" /\ m_ty.k = "resp" /\ ~m_value.committed
    /\ get_type_size(m_ty.ok) > 4
    /\ m_read = ROk(m_value)

\* STANDARD_PRINCIPAL_BYTES + CONTRACT_NAME_MAX_LENGTH
PRINCIPAL_BYTES_MAX == 22 + 128

\* the most bytes a value of an in-memory type takes: the length the type is
\* declared with, which the reader asserts the length it is given against
Capacity(ty) ==
    CASE ty.k \in {"buff", "ascii"} -> ty.n
      [] ty.k = "utf8" -> 4 * ty.n
      [] ty.k = "principal" -> PRINCIPAL_BYTES_MAX
      [] ty.k = "list" -> ty.n * get_type_size(ty.t)

\* write_to_wasm takes any Value with its type: also values of the kind of
\* the type that are longer than the type declares
HandedInputs ==
    MarshalInputs \cup
    { <<TBuff(2), VBuff(<<1, 2, 3>>)>>,
      <<TAscii(2), VAscii(<<97, 98, 99>>)>>,
      <<TList(TInt, 2), ConsList(<<VInt(1), VInt(2), VInt(3)>>)>>,
      <<TList(TBuff(1), 2), ConsList(<<VBuff(<<1>>), VBuff(<<2, 3>>)>>)>> }

HandedInit ==
    /\ \E fill \in FillBytes : memory = [a \in Addr |-> fill]
    /\ \E in \in HandedInputs : m_ty = in[1] /\ m_value = in[2]
    /\ m_offset \in {0, 4}
    /\ m_pc = "init"
    /\ m_written = WResult(memory, 0, 0, "none")
    /\ m_read = RErr("none")
    /\ OthersIdle("mem")

SpecHanded == HandedInit /\ [][MemNext]_vars

\* the (offset, length) pairs written for the value at offset and, for a
\* list, for its items
RECURSIVE PairsWithin(_, _, _)
PairsWithin(mem, ty, offset) ==
    IF ty.k \notin {"buff", "ascii", "utf8", "principal", "list"} THEN TRUE
    ELSE LET repr == read_indirect_offset_and_length(mem, offset)
         IN  /\ repr.err = "none"
             /\ repr.length <= Capacity(ty)
             /\ ty.k = "list" =>
                    \A i \in 0..((repr.length \div get_type_size(ty.t)) - 1) :
                        InBounds(repr.offset + i * get_type_size(ty.t), 8) =>
                            PairsWithin(mem, ty.t,
                                        repr.offset + i * get_type_size(ty.t))

\* C19: the length of every (offset, length) pair written for a buffer, a
\* string, a principal or a list is at most what the type it is written
\* under declares (22 + 128 bytes for a principal), whatever value is written
C19_WithinCapacity ==
    (m_pc \in {"written", "read"} /\ m_written.err = "none") =>
        PairsWithin(memory, m_ty, m_offset)

(***************************************************************************)
(* (is-eq a1 .. aN): IsEq::traverse and the code it emits                  *)
(***************************************************************************)
IntOps == {<<TInt, VInt(1)>>, <<TInt, VInt(2)>>, <<TInt, VInt(-1)>>}

BoolOps == {<<TBool, VBool(TRUE)>>, <<TBool, VBool(FALSE)>>}

BuffOps ==
    { <<TBuff(1), VBuff(<<1>>)>>, <<TBuff(2), VBuff(<<1>>)>>,
      <<TBuff(2), VBuff(<<1, 2>>)>> }

Utf8Ops == {<<TUtf8(1), VUtf8(<<97>>)>>, <<TUtf8(1), VUtf8(<<98>>)>>}

OptOps ==
    { <<TOpt(TNoType), VNone>>, <<TOpt(TInt), VNone>>,
      <<TOpt(TInt), VSome(VInt(1))>>, <<TOpt(TInt), VSome(VInt(2))>> }

RespOps ==
    { <<TResp(TInt, TNoType), VOk(VInt(1))>>, <<TResp(TNoType, TInt), VErr(VInt(1))>>,
      <<TResp(TInt, TInt), VOk(VInt(1))>>, <<TResp(TInt, TInt), VErr(VInt(1))>>,
      <<TResp(TInt, TInt), VErr(VInt(2))>> }

TupleOps ==
    { <<TupleAB, VTuple(<<[name |-> "a", v |-> VInt(3)],
                          [name |-> "b", v |-> VBuff(<<4, 5>>)]>>)>>,
      <<TupleAB, VTuple(<<[name |-> "a", v |-> VInt(3)],
                          [name |-> "b", v |-> VBuff(<<4, 6>>)]>>)>> }

ListOps ==
    { <<TList(TInt, 1), ConsList(<<VInt(1)>>)>>,
      <<TList(TInt, 2), ConsList(<<VInt(1), VInt(2)>>)>>,
      <<TList(TInt, 2), ConsList(<<VInt(1), VInt(3)>>)>>,
      <<TList(TInt, 2), ConsList(<<>>)>>,
      <<TList(TResp(TInt, TInt), 2), ConsList(<<VOk(VInt(1)), VErr(VInt(2))>>)>>,
      <<TList(TResp(TInt, TInt), 2), ConsList(<<VOk(VInt(1)), VErr(VInt(3))>>)>> }

\* the operands of one is-eq have a common type
OperandFamilies ==
    {IntOps, BoolOps, BuffOps, Utf8Ops, OptOps, RespOps, TupleOps, ListOps}

MaxOperands == 3

\* every way of taking 1..MaxOperands operands from one family
EqInputs ==
    UNION { UNION { [1..n -> F] : n \in 1..MaxOperands } : F \in OperandFamilies }
    \ { ops \in [1..1 -> Utf8Ops] : TRUE }

\* an operand expression leaves its slots on the stack; what lies in memory
\* is laid out at sp under the type of the expression
LayOut(mem, sp, op) ==
    write_to_wasm(mem, op[1], sp, sp + get_type_size(op[1]), op[2], TRUE)

EqInit ==
    /\ memory = [a \in Addr |-> 0]
    /\ e_ops \in EqInputs
    /\ e_pc = "compile" /\ e_i = 1 /\ e_val = <<>> /\ e_nth = <<>>
    /\ e_acc = 0 /\ e_sp = 0 /\ e_err = "none"
    /\ OthersIdle("eq")

\* IsEq::traverse: wasm_equal is emitted once for each later operand
EqCompile ==
    /\ e_pc = "compile"
    /\ LET ty == e_ops[1][1]
           n == Len(clar2wasm_ty(ty))
           bad == {i \in 2..Len(e_ops) :
                      wasm_equal_gen(ty, e_ops[i][1], n, n) # "ok"}
           first_bad == CHOOSE i \in bad : \A j \in bad : i <= j
       IN  IF bad = {} THEN e_pc' = "first" /\ e_err' = e_err
           ELSE /\ e_pc' = "error"
                /\ e_err' = wasm_equal_gen(ty, e_ops[first_bad][1], n, n)
    /\ UNCHANGED <<memory, notEq, e_ops, e_i, e_val, e_nth, e_acc, e_sp>>

\* the first operand is evaluated and saved to val_locals
EqFirst ==
    /\ e_pc = "first"
    /\ LET ty == e_ops[1][1]
           w == LayOut(memory, e_sp, e_ops[1])
           vals == read_from_memory(w.mem, ty, e_sp)
       IN  /\ memory' = w.mem
           /\ e_sp' = e_sp + get_type_size(ty) + w.in_mem_written
           /\ IF Len(e_ops) = 1
              THEN e_val' = e_val /\ e_nth' = e_nth /\ e_pc' = "done"
              ELSE /\ e_val' = assign_to_locals(ty, ty, FreshLocals(ty), vals)
                   /\ e_nth' = FreshLocals(ty)
                   /\ e_pc' = "nth"
    /\ e_acc' = 1
    /\ e_i' = 2
    /\ UNCHANGED <<notEq, e_ops, e_err>>

\* one turn of the loop over the later operands
EqNth ==
    /\ e_pc = "nth"
    /\ LET ty == e_ops[1][1]
           operand_ty == e_ops[e_i][1]
           w == LayOut(memory, e_sp, e_ops[e_i])
           vals == read_from_memory(w.mem, operand_ty, e_sp)
           nth_locals == assign_to_locals(ty, operand_ty, e_nth, vals)
           r == wasm_equal(w.mem, ty, operand_ty, e_val, nth_locals)
       IN  /\ memory' = w.mem
           /\ e_sp' = e_sp + get_type_size(operand_ty) + w.in_mem_written
           /\ e_val' = r.first
           /\ e_nth' = r.nth
           /\ IF r.v = Unreachable
              THEN e_pc' = "trap" /\ e_err' = "unreachable" /\ e_acc' = e_acc
              ELSE /\ e_acc' = (IF e_acc = 1 /\ r.v = 1 THEN 1 ELSE 0)
                   /\ e_err' = e_err
                   /\ e_pc' = IF e_i = Len(e_ops) THEN "done" ELSE "nth"
    /\ e_i' = e_i + 1
    /\ UNCHANGED <<notEq, e_ops>>

EqNext == EqCompile \/ EqFirst \/ EqNth

SpecEq == EqInit /\ [][EqNext]_vars

\* the source semantics of is-eq on two values
StructurallyEqual(v1, v2) == v1 = v2

\* C3: (is-eq v1 v2) on two values of a common type compiles, runs to its end
\* and returns true exactly when v1 and v2 are structurally equal
C3_IsEqStructural ==
    Len(e_ops) = 2 =>
        /\ e_pc \notin {"error", "trap"}
        /\ e_pc = "done" =>
              e_acc = (IF StructurallyEqual(e_ops[1][2], e_ops[2][2]) THEN 1 ELSE 0)

\* the slots of the first operand, which was laid out at offset 0
FirstOperandSlots ==
    assign_to_locals(e_ops[1][1], e_ops[1][1], FreshLocals(e_ops[1][1]),
                     read_from_memory(memory, e_ops[1][1], 0))

\* the operand expressions all have the type of the first one
SameTypes == \A i \in 1..Len(e_ops) : e_ops[i][1] = e_ops[1][1]

\* C4: (is-eq a1 .. aN) is the AND of the comparisons of a1 with every later
\* operand; the locals that hold a1 are the same at every comparison; and a
\* single-argument is-eq is true (stated for operands of one and the same
\* type, where each single comparison is right)
C4_NaryIsEq ==
    SameTypes =>
        /\ e_pc = "nth" => e_val = FirstOperandSlots
        /\ e_pc = "done" =>
              e_acc = (IF \A i \in 2..Len(e_ops) :
                             StructurallyEqual(e_ops[1][2], e_ops[i][2])
                       THEN 1 ELSE 0)

(***************************************************************************)
(* Arithmetic: words/arithmetic.rs, the stdlib functions it calls, and the *)
(* error mapping of error_mapping.rs.                                      *)
(*                                                                         *)
(* A mathematical integer is written c * 2^127 + k with small c and k,     *)
(* which covers the small numbers and the numbers next to the limits of    *)
(* the two 128-bit types.                                                  *)
(***************************************************************************)
Num(c, k) == [c |-> c, k |-> k]

\* the 128-bit representation of a number that the type holds
ToBytes(x) ==
    LET b == LeBytes(x.k, 16)
    IN  [b EXCEPT ![16] = (b[16] + 128 * x.c) % 256]

\* the number a 128-bit value of type ty stands for
FromBytes(ty, b) ==
    LET low == b[1] + 256 * b[2] + 65536 * b[3]
        mid_zero == \A i \in 4..15 : b[i] = 0
        mid_ones == \A i \in 4..15 : b[i] = 255
    IN  CASE mid_zero /\ b[16] = 0 -> Num(0, low)
          [] mid_zero /\ b[16] = 128 -> Num(IF ty = "int" THEN -1 ELSE 1, low)
          [] mid_ones /\ b[16] = 127 -> Num(1, low - 16777216)
          [] mid_ones /\ b[16] = 255 ->
                Num(IF ty = "int" THEN 0 ELSE 2, low - 16777216)

\* does the type hold the number; is the number below what the type holds
InRange(ty, x) ==
    IF ty = "int"
    THEN x.c = 0 \/ (x.c = -1 /\ x.k >= 0) \/ (x.c = 1 /\ x.k < 0)
    ELSE (x.c = 0 /\ x.k >= 0) \/ x.c = 1 \/ (x.c = 2 /\ x.k < 0)

BelowRange(ty, x) ==
    IF ty = "int" THEN x.c < -1 \/ (x.c = -1 /\ x.k < 0)
    ELSE x.c < 0 \/ (x.c = 0 /\ x.k < 0)

Abs(n) == IF n < 0 THEN -n ELSE n

\* the quotient rounded towards zero, and the remainder that goes with it
TruncDiv(a, b) ==
    IF (a < 0) = (b < 0) THEN Abs(a) \div Abs(b) ELSE -(Abs(a) \div Abs(b))

TruncRem(a, b) == a - b * TruncDiv(a, b)

\* the mathematical result of x op y (y # 0 for div and mod).  A product of
\* two numbers next to the limits is far outside both types: only its sign
\* is kept.  A quotient is given where it is again of the form c * 2^127 + k.
Exact(op, x, y) ==
    CASE op = "add" -> Num(x.c + y.c, x.k + y.k)
      [] op = "sub" -> Num(x.c - y.c, x.k - y.k)
      [] op = "mul" ->
            IF x.c = 0 THEN Num(x.k * y.c, x.k * y.k)
            ELSE IF y.c = 0 THEN Num(y.k * x.c, x.k * y.k)
            ELSE Num(4 * x.c * y.c, 0)
      [] op = "div" ->
            IF x.c = 0 /\ y.c = 0 THEN Num(0, TruncDiv(x.k, y.k))
            ELSE IF x = y THEN Num(0, 1)
            ELSE IF y = Num(0, 1) THEN x
            ELSE IF y = Num(0, -1) THEN Num(-x.c, -x.k)
            ELSE Num(0, 0)
      [] op = "mod" ->
            IF x.c = 0 /\ y.c = 0 THEN Num(0, TruncRem(x.k, y.k))
            ELSE IF x.c = 0 THEN x
            ELSE Num(0, 0)

\* the pairs for which Exact gives the quotient and the remainder
DivDomain(x, y) ==
    \/ x.c = 0 /\ y.c = 0
    \/ x = y
    \/ x.c # 0 /\ y \in {Num(0, 1), Num(0, -1)}
    \/ x.c = 0 /\ y.c # 0

\* the codes of the enum ErrorMap
ArithmeticOverflow == 0

ArithmeticUnderflow == 1

DivisionByZero == 2

\* stdlib.<op>-<ty> on the two 128-bit values a and b: the result, or the
\* code handed to stdlib.runtime-error before the trap
StdlibArith(op, ty, a, b) ==
    LET x == FromBytes(ty, a)
        y == FromBytes(ty, b)
        r == Exact(op, x, y)
    IN  IF op \in {"div", "mod"} /\ y = Num(0, 0)
        THEN [trap |-> TRUE, code |-> DivisionByZero, v |-> a]
        ELSE IF InRange(ty, r) THEN [trap |-> FALSE, code |-> -1, v |-> ToBytes(r)]
        ELSE IF BelowRange(ty, r)
        THEN [trap |-> TRUE, code |-> ArithmeticUnderflow, v |-> a]
        ELSE [trap |-> TRUE, code |-> ArithmeticOverflow, v |-> a]

\* read_identifier_from_wasm: the bytes as a string; bytes that are not ASCII
\* are taken as invalid UTF-8
read_identifier_from_wasm(mem, offset, length) ==
    IF ~InBounds(offset, length) THEN RErr("out of bounds")
    ELSE LET bs == MemRead(mem, offset, length)
         IN  IF \E i \in 1..length : bs[i] >= 128
             THEN RErr("UnableToReadIdentifier")
             ELSE ROk(bs)

IsDigit(b) == b >= 48 /\ b <= 57

\* the number of digits of text from position p on
RECURSIVE DigitsAt(_, _)
DigitsAt(text, p) ==
    IF p <= Len(text) /\ IsDigit(text[p]) THEN 1 + DigitsAt(text, p + 1) ELSE 0

\* the number written with the count digits of text from position p on
RECURSIVE Parse(_, _, _)
Parse(text, p, count) ==
    IF count = 0 THEN 0
    ELSE 10 * Parse(text, p, count - 1) + (text[p + count - 1] - 48)

\* Regex "expected: (\d+) got: (\d+)", captures: the leftmost match
Captures(text) ==
    LET expected == <<101, 120, 112, 101, 99, 116, 101, 100, 58, 32>>
        got == <<32, 103, 111, 116, 58, 32>>
        d1(p) == DigitsAt(text, p + 10)
        d2(p) == DigitsAt(text, p + 16 + d1(p))
        MatchAt(p) ==
            /\ p + 9 <= Len(text)
            /\ SubSeq(text, p, p + 9) = expected
            /\ d1(p) >= 1
            /\ p + 15 + d1(p) <= Len(text)
            /\ SubSeq(text, p + 10 + d1(p), p + 15 + d1(p)) = got
            /\ d2(p) >= 1
        starts == {p \in 1..Len(text) : MatchAt(p)}
    IN  IF starts = {} THEN [matched |-> FALSE]
        ELSE LET p == CHOOSE q \in starts : \A r \in starts : q <= r
             IN  [matched |-> TRUE,
                  expected |-> Parse(text, p + 10, d1(p)),
                  got |-> Parse(text, p + 16 + d1(p), d2(p))]

\* the ArgumentCountMismatch arm of from_runtime_error_code
ArgumentCountMismatchArm(mem, runtime_error_arg_offset, runtime_error_arg_len) ==
    LET arg_lengths == read_identifier_from_wasm(mem, runtime_error_arg_offset,
                                                 runtime_error_arg_len)
    IN  IF arg_lengths.err # "none" THEN [k |-> "panic"]
        ELSE LET captures == Captures(arg_lengths.v)
             IN  IF ~captures.matched THEN [k |-> "panic"]
                 ELSE [k |-> "IncorrectArgumentCount",
                       expected |-> captures.expected, got |-> captures.got]

\* the conversion with the words of codes 0 and 1 exchanged
ErrorMapFromExchanged(error_code) ==
    CASE error_code = 0 -> "ArithmeticUnderflow"
      [] error_code = 1 -> "ArithmeticOverflow"
      [] error_code = 2 -> "DivisionByZero"
      [] OTHER -> "NotMapped"

\* the conversion without its arm for 13
ErrorMapFromShort(error_code) ==
    IF error_code = -1 THEN "NotClarityError"
    ELSE IF error_code \in 0..12
    THEN <<"ArithmeticOverflow", "ArithmeticUnderflow", "DivisionByZero",
           "ArithmeticLog2Error", "ArithmeticSqrtiError", "BadTypeConstruction",
           "Panic", "ShortReturnAssertionFailure", "ArithmeticPowError",
           "NameAlreadyUsed", "ShortReturnExpectedValueResponse",
           "ShortReturnExpectedValueOptional",
           "ShortReturnExpectedValue">>[error_code + 1]
    ELSE "NotMapped"

\* impl From<i32> for ErrorMap
ErrorMapFrom(error_code) ==
    CASE error_code = -1 -> "NotClarityError"
      [] error_code = 0 -> "ArithmeticOverflow"
      [] error_code = 1 -> "ArithmeticUnderflow"
      [] error_code = 2 -> "DivisionByZero"
      [] error_code = 3 -> "ArithmeticLog2Error"
      [] error_code = 4 -> "ArithmeticSqrtiError"
      [] error_code = 5 -> "BadTypeConstruction"
      [] error_code = 6 -> "Panic"
      [] error_code = 7 -> "ShortReturnAssertionFailure"
      [] error_code = 8 -> "ArithmeticPowError"
      [] error_code = 9 -> "NameAlreadyUsed"
      [] error_code = 10 -> "ShortReturnExpectedValueResponse"
      [] error_code = 11 -> "ShortReturnExpectedValueOptional"
      [] error_code = 12 -> "ShortReturnExpectedValue"
      [] error_code = 13 -> "ArgumentCountMismatch"
      [] OTHER -> "NotMapped"

\* the number each variant of ErrorMap is declared with (variant as i32)
AsI32(variant) ==
    CASE variant = "NotClarityError" -> -1
      [] variant = "ArithmeticOverflow" -> 0
      [] variant = "ArithmeticUnderflow" -> 1
      [] variant = "DivisionByZero" -> 2
      [] variant = "ArithmeticLog2Error" -> 3
      [] variant = "ArithmeticSqrtiError" -> 4
      [] variant = "BadTypeConstruction" -> 5
      [] variant = "Panic" -> 6
      [] variant = "ShortReturnAssertionFailure" -> 7
      [] variant = "ArithmeticPowError" -> 8
      [] variant = "NameAlreadyUsed" -> 9
      [] variant = "ShortReturnExpectedValueResponse" -> 10
      [] variant = "ShortReturnExpectedValueOptional" -> 11
      [] variant = "ShortReturnExpectedValue" -> 12
      [] variant = "ArgumentCountMismatch" -> 13
      [] variant = "NotMapped" -> 99

\* the variants of ErrorMap
Variants ==
    {"NotClarityError", "ArithmeticOverflow", "ArithmeticUnderflow",
     "DivisionByZero", "ArithmeticLog2Error", "ArithmeticSqrtiError",
     "BadTypeConstruction", "Panic", "ShortReturnAssertionFailure",
     "ArithmeticPowError", "NameAlreadyUsed", "ShortReturnExpectedValueResponse",
     "ShortReturnExpectedValueOptional", "ShortReturnExpectedValue",
     "ArgumentCountMismatch", "NotMapped"}

\* short_return_value: the thrown value read back, or a panic when the type
\* string or the value cannot be recovered
short_return_value(thrown) == IF thrown.err # "none" THEN "panic" ELSE "value"

\* from_runtime_error_code: the error an unreachable trap is reported as.
\* globals holds runtime-error-arg-offset and runtime-error-arg-len, thrown
\* is what the globals of the short return designate
from_runtime_error_code(runtime_error_code, mem, globals, thrown) ==
    LET e == ErrorMapFrom(runtime_error_code)
    IN  CASE e = "NotClarityError" -> "Wasm(Runtime)"
          [] e = "ArithmeticOverflow" -> "Runtime(ArithmeticOverflow)"
          [] e = "ArithmeticUnderflow" -> "Runtime(ArithmeticUnderflow)"
          [] e = "DivisionByZero" -> "Runtime(DivisionByZero)"
          [] e = "ArithmeticLog2Error" -> "Runtime(Arithmetic(log2))"
          [] e = "ArithmeticSqrtiError" -> "Runtime(Arithmetic(sqrti))"
          [] e = "BadTypeConstruction" -> "Runtime(BadTypeConstruction)"
          [] e = "Panic" -> "Runtime(UnwrapFailure)"
          [] e = "ShortReturnAssertionFailure" ->
                IF short_return_value(thrown) = "panic" THEN "panic"
                ELSE "ShortReturn(AssertionFailed)"
          [] e = "ArithmeticPowError" -> "Runtime(Arithmetic(pow))"
          [] e = "NameAlreadyUsed" ->
                IF read_identifier_from_wasm(mem, globals.arg_offset,
                                             globals.arg_len).err # "none"
                THEN "panic"
                ELSE "Unchecked(NameAlreadyUsed)"
          [] e = "ShortReturnExpectedValueResponse" ->
                IF short_return_value(thrown) = "panic" THEN "panic"
                ELSE "ShortReturn(ExpectedValue(err))"
          [] e = "ShortReturnExpectedValueOptional" -> "ShortReturn(ExpectedValue(none))"
          [] e = "ShortReturnExpectedValue" ->
                IF short_return_value(thrown) = "panic" THEN "panic"
                ELSE "ShortReturn(ExpectedValue)"
          [] e = "ArgumentCountMismatch" ->
                IF ArgumentCountMismatchArm(mem, globals.arg_offset,
                                            globals.arg_len).k = "panic"
                THEN "panic"
                ELSE "Unchecked(IncorrectArgumentCount)"
          [] OTHER -> "panic"

\* the values the arguments take: small ones and, in pairs, ones at the limits
SmallInts == {Num(0, k) : k \in {-1, 0, 1, 2, 3, 8}}

SmallUInts == {Num(0, k) : k \in {0, 1, 2, 3, 8}}

LimitInts == {Num(-1, 0), Num(-1, 1), Num(1, -1), Num(1, -2)}

LimitUInts == {Num(1, 0), Num(2, -1), Num(2, -2)}

MaxArgs == 3

ArithInputs(op, ty) ==
    LET small == IF ty = "int" THEN SmallInts ELSE SmallUInts
        all == small \cup (IF ty = "int" THEN LimitInts ELSE LimitUInts)
    IN  IF op \in {"div", "mod"}
        THEN {args \in [1..2 -> all] : DivDomain(args[1], args[2])}
             \cup (IF op = "div" THEN UNION {[1..n -> small] : n \in 3..MaxArgs}
                   ELSE {})
        ELSE [1..2 -> all] \cup UNION {[1..n -> small] : n \in 3..MaxArgs}

ArInit ==
    /\ memory = <<>>
    /\ a_op \in {"add", "sub", "mul", "div", "mod"}
    /\ a_ty \in {"int", "uint"}
    /\ a_args \in ArithInputs(a_op, a_ty)
    /\ a_stack = <<>>
    /\ a_pc = "push" /\ a_calls = 0 /\ a_code = -1 /\ a_error = "none"
    /\ OthersIdle("ar")

\* the arguments are lowered one after the other before visit is called:
\* each leaves its value on the stack
ArPush ==
    /\ a_pc = "push"
    /\ a_stack' = Append(a_stack, ToBytes(a_args[Len(a_stack) + 1]))
    /\ a_pc' = IF Len(a_stack) + 1 = Len(a_args) THEN "call" ELSE "push"
    /\ UNCHANGED <<notAr, a_op, a_ty, a_args, a_calls, a_code, a_error>>

\* the number of calls that are emitted: simple_typed_multi_value calls the
\* function one time less than there are arguments, simple_typed_one_call once
EmittedCalls(op, n_args) == IF op = "mod" THEN 1 ELSE n_args - 1

\* one emitted call: the function takes its two operands from the top of the
\* stack and leaves its result there, or sets runtime-error-code and traps
ArCall ==
    /\ a_pc = "call"
    /\ a_calls < EmittedCalls(a_op, Len(a_args))
    /\ LET n == Len(a_stack)
           r == StdlibArith(a_op, a_ty, a_stack[n - 1], a_stack[n])
       IN  IF r.trap
           THEN a_code' = r.code /\ a_pc' = "trap" /\ a_stack' = a_stack
           ELSE /\ a_stack' = Append(SubSeq(a_stack, 1, n - 2), r.v)
                /\ a_code' = a_code
                /\ a_pc' = IF a_calls + 1 = EmittedCalls(a_op, Len(a_args))
                           THEN "done" ELSE "call"
    /\ a_calls' = a_calls + 1
    /\ UNCHANGED <<notAr, a_op, a_ty, a_args, a_error>>

\* resolve_error on the unreachable trap
ArResolve ==
    /\ a_pc = "trap"
    /\ a_error' = from_runtime_error_code(a_code, memory,
                        [arg_offset |-> 0, arg_len |-> 0], RErr("not thrown"))
    /\ a_pc' = "reported"
    /\ UNCHANGED <<notAr, a_op, a_ty, a_args, a_stack, a_calls, a_code>>

ArNext == ArPush \/ ArCall \/ ArResolve

SpecArith == ArInit /\ [][ArNext]_vars

\* (((a1 op a2) op a3) .. op aN) on small numbers; -1 when a division by
\* zero is met
RECURSIVE LeftFold(_, _, _)
LeftFold(op, args, n) ==
    IF n = 1 THEN args[1].k
    ELSE LET acc == LeftFold(op, args, n - 1)
             y == args[n].k
         IN  CASE op = "add" -> acc + y
               [] op = "sub" -> acc - y
               [] op = "mul" -> acc * y
               [] op = "div" -> TruncDiv(acc, y)

\* the left fold meets no division by zero and stays in the type
RECURSIVE LeftFoldDefined(_, _, _, _)
LeftFoldDefined(op, ty, args, n) ==
    IF n = 1 THEN TRUE
    ELSE /\ LeftFoldDefined(op, ty, args, n - 1)
         /\ op = "div" => args[n].k # 0
         /\ ty = "uint" => LeftFold(op, args, n) >= 0

AllSmall == \A i \in 1..Len(a_args) : a_args[i].c = 0

\* C5: + - * / on N >= 2 arguments make N-1 calls of the binary function and
\* yield the left-associative fold of the arguments
C5_LeftFold ==
    (a_op \in {"add", "sub", "mul", "div"} /\ AllSmall
       /\ LeftFoldDefined(a_op, a_ty, a_args, Len(a_args))
       /\ a_pc \in {"done", "trap", "reported"}) =>
        /\ a_pc = "done"
        /\ a_calls = Len(a_args) - 1
        /\ a_stack = <<ToBytes(Num(0, LeftFold(a_op, a_args, Len(a_args))))>>

\* the exact result of the operation of a two-argument invocation
ExactResult == Exact(a_op, a_args[1], a_args[2])

MaxBranches == 4

\* the instruction sequence the i-th ir::IfElse runs on the i32 it pops: the
\* arms are exchanged in the IfElse of or
IfElseExchanged(invert, cond) ==
    IF invert THEN (IF cond # 0 THEN "branch" ELSE "noop")
    ELSE (IF cond # 0 THEN "noop" ELSE "branch")

ShortCircuitIfElse(invert, cond) ==
    IF invert THEN (IF cond # 0 THEN "noop" ELSE "branch")
    ELSE (IF cond # 0 THEN "branch" ELSE "noop")

\* the noop sequence leaves the constant that makes the next IfElse take its
\* noop arm again
Noop(invert) == IF invert THEN 1 ELSE 0

I32OfBool(b) == IF b THEN 1 ELSE 0

ScInit ==
    /\ memory = <<>>
    /\ s_invert \in BOOLEAN
    /\ s_args \in UNION {[1..n -> BOOLEAN] : n \in 1..MaxBranches}
    /\ s_stack = 0 /\ s_next = 0 /\ s_evaluated = <<>> /\ s_pc = "start"
    /\ OthersIdle("sc")

\* builder.i32_const(if invert { 0 } else { 1 })
ScConst ==
    /\ s_pc = "start"
    /\ s_stack' = (IF s_invert THEN 0 ELSE 1)
    /\ s_next' = 1
    /\ s_pc' = "run"
    /\ UNCHANGED <<notSc, s_invert, s_args, s_evaluated>>

\* one IfElse: it pops the i32 and runs the operand's sequence, which
\* evaluates the operand with its side effects, or the noop sequence
ScIfElse ==
    /\ s_pc = "run"
    /\ IF ShortCircuitIfElse(s_invert, s_stack) = "branch"
       THEN /\ s_evaluated' = Append(s_evaluated, s_next)
            /\ s_stack' = I32OfBool(s_args[s_next])
       ELSE /\ s_evaluated' = s_evaluated
            /\ s_stack' = Noop(s_invert)
    /\ s_next' = s_next + 1
    /\ s_pc' = IF s_next = Len(s_args) THEN "done" ELSE "run"
    /\ UNCHANGED <<notSc, s_invert, s_args>>

ScNext == ScConst \/ ScIfElse

SpecShort == ScInit /\ [][ScNext]_vars

\* C7: operands are evaluated in source order; operand i is evaluated iff
\* every earlier operand yielded true (and) or false (or); the result of
\* and is true iff all operands are true, of or iff some operand is true
C7_ShortCircuit ==
    s_pc \in {"run", "done"} =>
        /\ s_evaluated = [i \in 1..Len(s_evaluated) |-> i]
        /\ \A i \in 1..(s_next - 1) :
              (i <= Len(s_evaluated)) <=> (\A j \in 1..(i - 1) : s_args[j] = ~s_invert)
        /\ s_pc = "done" =>
              s_stack = (IF s_invert
                         THEN I32OfBool(\E i \in 1..Len(s_args) : s_args[i])
                         ELSE I32OfBool(\A i \in 1..Len(s_args) : s_args[i]))

\* (and true false true) is false and its third operand was not evaluated
C7_Witness ==
    /\ s_pc = "done" /\ ~s_invert
    /\ s_args = <<TRUE, FALSE, TRUE>>
    /\ s_evaluated = <<1, 2>> /\ s_stack = 0

(***************************************************************************)
(* filter: Filter::traverse                                                *)
(***************************************************************************)
MaxListLen == 3

ElemValues == {0, 1, 2, 3}

\* the discriminators: is-great of the test, and its counterpart
Discriminators == {"is-great", "is-small"}

Satisfies(pred, k) == IF pred = "is-great" THEN k > 2 ELSE k < 3

\* the call of the discriminator on the int the loop has read
Discriminator(pred, slots) ==
    LET x == FromBytes("int", slots[1] \o slots[2])
    IN  IF pred = "is-great" THEN x.c > 0 \/ (x.c = 0 /\ x.k > 2)
        ELSE x.c < 0 \/ (x.c = 0 /\ x.k < 3)

ElemSize == get_type_size(TInt)

\* the in-memory representation of a list of ints
RECURSIVE ListBytes(_)
ListBytes(elems) ==
    IF elems = <<>> THEN <<>>
    ELSE ToBytes(Num(0, Head(elems))) \o ListBytes(Tail(elems))

\* what the memory beside the list holds
Leftover == {0, 255}

FiInit ==
    /\ f_list \in UNION {[1..n -> ElemValues] : n \in 0..MaxListLen}
    /\ f_pred \in Discriminators
    /\ \E fill \in Leftover :
          LET bytes == ListBytes(f_list)
          IN  memory = [a \in Addr |-> IF a < Len(bytes) THEN bytes[a + 1]
                                       ELSE fill]
    /\ f_input_offset = 0 /\ f_input_end = 0
    /\ f_output_offset = 0 /\ f_output_len = 0
    /\ f_sp = MaxListLen * ElemSize
    /\ f_pc = "setup"
    /\ OthersIdle("f")

\* the sequence has left its offset and length on the stack: the locals are
\* set and the output region is reserved on the call stack
FiSetup ==
    /\ f_pc = "setup"
    /\ LET input_len == Len(f_list) * ElemSize
       IN  /\ f_input_offset' = 0
           /\ f_input_end' = 0 + input_len
    /\ f_output_offset' = f_sp
    /\ f_sp' = f_sp + MaxListLen * ElemSize
    /\ f_output_len' = 0
    /\ f_pc' = "loop"
    /\ UNCHANGED <<memory, notFi, f_list, f_pred>>

\* one run of the loop's body, up to and with its closing br_if
FiLoop ==
    /\ f_pc = "loop"
    /\ LET elem == read_from_memory(memory, TInt, f_input_offset)
       IN  IF Discriminator(f_pred, elem)
           THEN /\ memory' = MemWrite(memory, f_output_offset + f_output_len,
                                      MemRead(memory, f_input_offset, ElemSize))
                /\ f_output_len' = f_output_len + ElemSize
           ELSE UNCHANGED <<memory, f_output_len>>
    /\ f_input_offset' = f_input_offset + ElemSize
    /\ f_pc' = IF f_input_offset + ElemSize < f_input_end THEN "loop" ELSE "done"
    /\ UNCHANGED <<notFi, f_list, f_pred, f_input_end, f_output_offset, f_sp>>

FiNext == FiSetup \/ FiLoop

SpecFilter == FiInit /\ [][FiNext]_vars

\* C8: the list filter returns has as many elements as the input has
\* elements satisfying the discriminator, namely those elements in their
\* order; its byte length is that number times the size of an element
C8_Filter ==
    f_pc = "done" =>
        LET kept == SelectSeq(f_list, LAMBDA k : Satisfies(f_pred, k))
        IN  /\ f_output_len = Len(kept) * ElemSize
            /\ MemRead(memory, f_output_offset, f_output_len) = ListBytes(kept)

(***************************************************************************)
(* unwrap! within a function: Unwrap::traverse, and the stack pointer      *)
(* across the invocations                                                  *)
(***************************************************************************)
MaxDepth == 2

\* (some 10), none, (ok 10), (err 9999) as the slots their expression leaves
XValues ==
    {[kind |-> "opt", slots |-> <<1, 10>>], [kind |-> "opt", slots |-> <<0, 0>>],
     [kind |-> "resp", slots |-> <<1, 10, 0>>],
     [kind |-> "resp", slots |-> <<0, 0, 9999>>]}

IsSuccess(x) == x.slots[1] = 1

\* bodies like (+ (unwrap! x 23) 10): "alloc" is a form that reserves space
\* on the call stack (var-set, var-get), "call" the function calling itself
\* while its depth argument is positive, "rest" the addition around unwrap!
Bodies ==
    {<<"unwrap", "rest">>,
     <<"alloc", "unwrap", "rest">>,
     <<"alloc", "call", "unwrap", "rest">>,
     <<"call", "alloc", "unwrap", "alloc", "rest">>,
     <<"alloc", "unwrap", "call", "rest">>}

\* the value of the fallback expression, as in the tests
Fallback == 23

Frame(n, sp) ==
    [n |-> n, pc |-> 0, entry_sp |-> sp, saved_sp |-> -1, val |-> 0,
     d_evaluated |-> FALSE, rest_evaluated |-> FALSE, early |-> FALSE]

FnInit ==
    /\ memory = <<>>
    /\ u_body \in Bodies
    /\ u_inputs \in UNION {[1..n -> XValues] : n \in 1..(MaxDepth + 1)}
    /\ u_dalloc \in BOOLEAN
    /\ u_sp = 0
    /\ u_frames = <<Frame(Len(u_inputs) - 1, 0)>>
    /\ u_log = <<>>
    /\ OthersIdle("u")

Top == u_frames[Len(u_frames)]

SetTop(f) == [u_frames EXCEPT ![Len(u_frames)] = f]

Running(form) ==
    /\ u_frames # <<>>
    /\ Top.pc \in 1..Len(u_body)
    /\ u_body[Top.pc] = form

\* create_call_stack_local: the old stack pointer is the offset of the new
\* space and the pointer moves past it
create_call_stack_local(sp, size) == [offset |-> sp, sp |-> sp + size]

\* the function's entry: the stack pointer is saved into a local
FnPrologue ==
    /\ u_frames # <<>> /\ Top.pc = 0
    /\ u_frames' = SetTop([Top EXCEPT !.saved_sp = u_sp, !.pc = 1])
    /\ UNCHANGED <<memory, notFn, u_body, u_inputs, u_dalloc, u_sp, u_log>>

\* var-set: space for the value is made on the call stack
FnAlloc ==
    /\ Running("alloc")
    /\ u_sp' = create_call_stack_local(u_sp, get_type_size(TInt)).sp
    /\ u_frames' = SetTop([Top EXCEPT !.pc = @ + 1])
    /\ UNCHANGED <<memory, notFn, u_body, u_inputs, u_dalloc, u_log>>

\* the function calls itself with a depth one less, or has reached depth 0
FnCall ==
    /\ Running("call")
    /\ u_frames' = IF Top.n > 0
                   THEN Append(SetTop([Top EXCEPT !.pc = @ + 1]),
                               Frame(Top.n - 1, u_sp))
                   ELSE SetTop([Top EXCEPT !.pc = @ + 1])
    /\ UNCHANGED <<memory, notFn, u_body, u_inputs, u_dalloc, u_sp, u_log>>

\* the arm the IfElse of unwrap! runs on the discriminant
UnwrapIfElseExchanged(discriminant) ==
    IF discriminant # 0 THEN "throw_branch" ELSE "unwrap_branch"

UnwrapIfElse(discriminant) ==
    IF discriminant # 0 THEN "unwrap_branch" ELSE "throw_branch"

\* where the throw branch goes once the fallback has left its value
ThrowBranchReturns == "return"

ThrowBranchExit == "epilogue"

\* the invocation is over: it is recorded and its frame is dropped
Leave(f, sp_at_exit) ==
    /\ u_log' = Append(u_log,
                       [x |-> u_inputs[Len(u_frames)], depth |-> Len(u_frames),
                        entry_sp |-> f.entry_sp, exit_sp |-> sp_at_exit,
                        high_sp |-> u_sp, result |-> f.val,
                        d_evaluated |-> f.d_evaluated,
                        rest_evaluated |-> f.rest_evaluated,
                        early |-> f.early])
    /\ u_frames' = SubSeq(u_frames, 1, Len(u_frames) - 1)

\* Unwrap::traverse: the err value is dropped, the payload saved to locals,
\* and the discriminant chooses the arm
FnUnwrap ==
    /\ Running("unwrap")
    /\ LET x == u_inputs[Len(u_frames)]
           kept == IF x.kind = "resp" THEN SubSeq(x.slots, 1, Len(x.slots) - 1)
                   ELSE x.slots
           some_locals == Tail(kept)
           thrown == [Top EXCEPT !.val = Fallback, !.d_evaluated = TRUE,
                                 !.early = TRUE, !.pc = Len(u_body) + 1]
           sp_thrown == IF u_dalloc
                        THEN create_call_stack_local(u_sp, get_type_size(TInt)).sp
                        ELSE u_sp
       IN  IF UnwrapIfElse(kept[1]) = "unwrap_branch"
           THEN /\ u_frames' = SetTop([Top EXCEPT !.val = some_locals[1],
                                                  !.pc = @ + 1])
                /\ UNCHANGED <<u_sp, u_log>>
           ELSE IF ThrowBranchExit = "epilogue"
           THEN /\ u_frames' = SetTop(thrown)
                /\ u_sp' = sp_thrown
                /\ UNCHANGED u_log
           ELSE /\ u_sp' = sp_thrown
                /\ Leave(thrown, sp_thrown)
    /\ UNCHANGED <<memory, notFn, u_body, u_inputs, u_dalloc>>

\* the rest of the body: (+ _ 10)
FnRest ==
    /\ Running("rest")
    /\ u_frames' = SetTop([Top EXCEPT !.val = @ + 10, !.rest_evaluated = TRUE,
                                      !.pc = @ + 1])
    /\ UNCHANGED <<memory, notFn, u_body, u_inputs, u_dalloc, u_sp, u_log>>

\* the function's exit: the saved stack pointer is restored
FnEpilogue ==
    /\ u_frames # <<>> /\ Top.pc = Len(u_body) + 1
    /\ u_sp' = Top.saved_sp
    /\ Leave(Top, Top.saved_sp)
    /\ UNCHANGED <<memory, notFn, u_body, u_inputs, u_dalloc>>

FnNext == FnPrologue \/ FnAlloc \/ FnCall \/ FnUnwrap \/ FnRest \/ FnEpilogue

SpecFn == FnInit /\ [][FnNext]_vars

\* C9: on (some v) or (ok v) unwrap! yields v, the fallback is not evaluated
\* and the body goes on; on none or (err e) the fallback is evaluated and
\* the function returns its value at once, the rest of the body is not
\* evaluated, and the invocation returns to its caller instead of trapping
C9_Unwrap ==
    /\ \A i \in 1..Len(u_log) :
          LET r == u_log[i]
          IN  IF IsSuccess(r.x)
              THEN /\ r.result = 10 + 10
                   /\ ~r.d_evaluated /\ r.rest_evaluated /\ ~r.early
              ELSE /\ r.result = Fallback
                   /\ r.d_evaluated /\ ~r.rest_evaluated /\ r.early
    /\ \A i \in 1..Len(u_frames) :
          LET f == u_frames[i]
              x == u_inputs[i]
              past_unwrap == f.pc > 0 /\ \E j \in 1..(f.pc - 1) : u_body[j] = "unwrap"
          IN  /\ f.d_evaluated <=> (past_unwrap /\ ~IsSuccess(x))
              /\ f.early <=> f.d_evaluated
              /\ f.rest_evaluated => IsSuccess(x)
              /\ (past_unwrap /\ IsSuccess(x) /\ ~f.rest_evaluated) => f.val = 10

\* (unwrapper none) and (unwrapper (err 9999)) have returned 23, and
\* (unwrapper (some 10)) 20
C9_Witness ==
    /\ u_frames = <<>>
    /\ u_body = <<"alloc", "call", "unwrap", "rest">>
    /\ \E i, j \in 1..Len(u_log) :
          /\ ~IsSuccess(u_log[i].x) /\ u_log[i].result = Fallback
          /\ IsSuccess(u_log[j].x) /\ u_log[j].result = 20

\* C1: every invocation, nested ones and those that leave through the
\* fallback of unwrap! included, leaves the stack pointer at exit as it was
\* at entry, whatever the body has reserved on the call stack
C1_StackPointer ==
    /\ \A i \in 1..Len(u_log) : u_log[i].exit_sp = u_log[i].entry_sp
    /\ u_frames = <<>> => u_sp = 0

\* a nested invocation that had reserved space left through the fallback
C1_Witness ==
    \E i \in 1..Len(u_log) :
        /\ u_log[i].early /\ u_log[i].depth >= 2
        /\ u_log[i].high_sp > u_log[i].entry_sp
        /\ u_log[i].exit_sp = u_log[i].entry_sp

(***************************************************************************)
(* match: Match::traverse                                                  *)
(***************************************************************************)
Names == {"val", "err", "x"}

\* (some 10), none, (ok 115), (err 18) and an int, with the slots they leave
MatchOns ==
    {[ty |-> "opt", slots |-> <<1, 10>>], [ty |-> "opt", slots |-> <<0, 0>>],
     [ty |-> "resp", slots |-> <<1, 115, 0>>],
     [ty |-> "resp", slots |-> <<0, 0, 18>>],
     [ty |-> "int", slots |-> <<5>>]}

\* the value of the none arm in the tests
NoneBody == 1001

MaInit ==
    /\ memory = <<>>
    /\ \E on \in MatchOns, sb \in Names, eb \in Names, outer \in [Names -> {0, 1}] :
          /\ g_args = [match_on |-> on, success_binding |-> sb,
                       err_binding |-> eb, outer |-> outer]
          /\ g_bindings = outer
    /\ g_saved = <<>>
    /\ g_locals = [count |-> 1, ok |-> 0, err |-> 0]
    /\ g_blocks = [success |-> <<>>, other |-> <<>>]
    /\ g_pc = "start" /\ g_ran = <<>> /\ g_result = 0
    /\ OthersIdle("g")

\* the bindings are saved and match_on is lowered
MaSave ==
    /\ g_pc = "start"
    /\ g_saved' = g_bindings
    /\ g_pc' = IF g_args.match_on.ty \in {"opt", "resp"} THEN "success" ELSE "error"
    /\ UNCHANGED <<memory, notMa, g_args, g_bindings, g_locals, g_blocks, g_ran, g_result>>

\* the payloads are saved to new locals, the success binding is inserted and
\* the success body is lowered
MaSuccess ==
    /\ g_pc = "success"
    /\ LET n == g_locals.count
           locals == IF g_args.match_on.ty = "opt"
                     THEN [count |-> n + 1, ok |-> n + 1, err |-> 0]
                     ELSE [count |-> n + 2, ok |-> n + 2, err |-> n + 1]
           bound == [g_bindings EXCEPT ![g_args.success_binding] = locals.ok]
       IN  /\ g_locals' = locals
           /\ g_bindings' = bound
           /\ g_blocks' = [g_blocks EXCEPT !.success = bound]
    /\ g_pc' = "other"
    /\ UNCHANGED <<memory, notMa, g_args, g_saved, g_ran, g_result>>

\* what the bindings are set to before the other arm is lowered
KeepBindings(bindings, saved_bindings) == bindings

RestoreBindings(bindings, saved_bindings) == saved_bindings

\* the bindings are restored and the other arm is lowered: the none body, or
\* the err body with the err binding inserted and the bindings restored again
MaOther ==
    /\ g_pc = "other"
    /\ LET restored == RestoreBindings(g_bindings, g_saved)
       IN  IF g_args.match_on.ty = "opt"
           THEN /\ g_bindings' = restored
                /\ g_blocks' = [g_blocks EXCEPT !.other = restored]
           ELSE LET bound == [restored EXCEPT ![g_args.err_binding] = g_locals.err]
                IN  /\ g_blocks' = [g_blocks EXCEPT !.other = bound]
                    /\ g_bindings' = g_saved
    /\ g_pc' = "emit"
    /\ UNCHANGED <<memory, notMa, g_args, g_saved, g_locals, g_ran, g_result>>

\* the IfElse over the two blocks is emitted
MaEmit ==
    /\ g_pc = "emit"
    /\ g_pc' = "run"
    /\ UNCHANGED <<memory, notMa, g_args, g_bindings, g_saved, g_locals, g_blocks, g_ran, g_result>>

\* the arm the IfElse runs on the indicator
MatchIfElse(indicator) == IF indicator # 0 THEN "success" ELSE "other"

\* the lowered form runs: the payloads go to their locals and one arm runs.
\* The success body and the err body yield the value of their binding, the
\* none body a constant
MaRun ==
    /\ g_pc = "run"
    /\ LET slots == g_args.match_on.slots
           held == [l \in 1..g_locals.count |->
                       IF l = g_locals.ok THEN slots[2]
                       ELSE IF l = g_locals.err THEN slots[3] ELSE 7]
           arm == MatchIfElse(slots[1])
       IN  /\ g_ran' = Append(g_ran, arm)
           /\ g_result' =
                 IF arm = "success" THEN held[g_blocks.success[g_args.success_binding]]
                 ELSE IF g_args.match_on.ty = "opt" THEN NoneBody
                 ELSE held[g_blocks.other[g_args.err_binding]]
    /\ g_pc' = "done"
    /\ UNCHANGED <<memory, notMa, g_args, g_bindings, g_saved, g_locals, g_blocks>>

MaNext == MaSave \/ MaSuccess \/ MaOther \/ MaEmit \/ MaRun

SpecMatch == MaInit /\ [][MaNext]_vars

\* C10: once the form is lowered the bindings are those before it; the
\* success arm was lowered under the outer bindings with the success name
\* rebound, the err arm under the outer bindings with the err name rebound,
\* the none arm under the outer bindings; one arm runs, chosen by the variant
C10_Match ==
    LET outer == g_args.outer
        opt == g_args.match_on.ty = "opt"
    IN  /\ g_pc \in {"emit", "run", "done", "error"} => g_bindings = outer
        /\ g_pc \in {"other", "emit", "run", "done"} =>
              /\ g_locals.ok > 1
              /\ g_blocks.success = [outer EXCEPT ![g_args.success_binding] = g_locals.ok]
        /\ g_pc \in {"emit", "run", "done"} =>
              IF opt THEN g_blocks.other = outer
              ELSE /\ g_locals.err > 1 /\ g_locals.err # g_locals.ok
                   /\ g_blocks.other = [outer EXCEPT ![g_args.err_binding] = g_locals.err]
        /\ g_pc = "done" =>
              LET slots == g_args.match_on.slots
              IN  /\ g_ran = <<IF slots[1] = 1 THEN "success" ELSE "other">>
                  /\ g_result = (IF slots[1] = 1 THEN slots[2]
                                 ELSE IF opt THEN NoneBody ELSE slots[3])

\* (match none val val 1001) was lowered where val was already bound, and
\* has run its none arm
C10_Witness ==
    /\ g_pc = "done"
    /\ g_args.match_on = [ty |-> "opt", slots |-> <<0, 0>>]
    /\ g_args.success_binding = "val" /\ g_args.outer["val"] = 1
    /\ g_result = NoneBody /\ g_ran = <<"other">>

(***************************************************************************)
(* words/data_vars.rs: define-data-var, var-set, var-get                   *)
(***************************************************************************)
MaxOps == 3

\* the values of a declared type that the forms are run on
ValuesOf(decl) ==
    CASE decl = TInt -> {VInt(123), VInt(5)}
      [] decl = TBool -> {VBool(TRUE), VBool(FALSE)}
      [] decl = TOpt(TInt) -> {VNone, VSome(VInt(5))}
      [] decl = TResp(TInt, TInt) -> {VOk(VInt(1)), VErr(VInt(2))}

\* generator.get_expr_type of a literal: the type the checker infers for it
get_expr_type(value) == TypeOf(value)

\* write_to_memory: the value's slots are stored under ty at offset
write_to_memory(mem, ty, offset, value) ==
    write_to_wasm(mem, ty, offset, offset + get_type_size(ty), value, FALSE).mem

DvInit ==
    /\ memory = [a \in Addr |-> 0]
    /\ \E decl \in {TInt, TBool, TOpt(TInt), TResp(TInt, TInt)} :
          \E initial \in ValuesOf(decl) : d_var = [decl |-> decl, initial |-> initial]
    /\ d_datavars_types = <<>> /\ d_imposed = <<>> /\ d_store = <<>>
    /\ d_last = <<>> /\ d_stack = <<>> /\ d_sp = 0 /\ d_ops = 0
    /\ d_pc = "define"
    /\ OthersIdle("d")

\* DefineDataVar::traverse and the run of what it emits: the initial value
\* is written at the end of the literal memory under the type of the
\* initial expression, the host defines the variable, the type is recorded
DvDefine ==
    /\ d_pc = "define"
    /\ LET ty == get_expr_type(d_var.initial)
           size == get_type_size(ty)
       IN  /\ memory' = write_to_memory(memory, ty, d_sp, d_var.initial)
           /\ d_sp' = d_sp + size
           /\ d_datavars_types' = ty
    /\ d_store' = d_var.initial
    /\ d_last' = d_var.initial
    /\ d_pc' = "run"
    /\ UNCHANGED <<notDv, d_var, d_imposed, d_stack, d_ops>>

\* SetDataVar::traverse and the run of what it emits: the recorded type is
\* set on the value, the value is written to new space on the call stack,
\* the host reads it from there, and true is left on the stack.  What is
\* emitted for a value under a type that is not the declared one is not run.
DvSet ==
    /\ d_pc = "run" /\ d_ops < MaxOps
    /\ \E value \in ValuesOf(d_var.decl) :
          LET ty == d_datavars_types
              local == create_call_stack_local(d_sp, get_type_size(ty))
          IN  /\ d_imposed' = ty
              /\ IF ty = d_var.decl
                 THEN /\ memory' = write_to_memory(memory, ty, local.offset, value)
                      /\ d_sp' = local.sp
                      /\ d_store' = read_from_wasm(memory', d_var.decl, local.offset,
                                                   get_type_size(ty)).v
                      /\ d_last' = value
                      /\ d_stack' = [form |-> "var-set", slots |-> <<1>>]
                      /\ d_pc' = "run"
                 ELSE /\ d_pc' = "mistyped"
                      /\ UNCHANGED <<memory, d_sp, d_store, d_last, d_stack>>
    /\ d_ops' = d_ops + 1
    /\ UNCHANGED <<notDv, d_var, d_datavars_types>>

\* where the result is read once the host has filled it in
PastResult(offset, size) == offset + size

ResultOffset(offset, size) == offset

\* GetDataVar::traverse and the run of what it emits: space for the result
\* is made on the call stack, the host writes the variable's value there and
\* the value is read back onto the stack
DvGet ==
    /\ d_pc = "run" /\ d_ops < MaxOps
    /\ LET ty == d_var.decl
           size == get_type_size(ty)
           local == create_call_stack_local(d_sp, size)
           filled == write_to_memory(memory, ty, local.offset, d_store)
       IN  /\ memory' = filled
           /\ d_sp' = local.sp
           /\ d_stack' = [form |-> "var-get",
                          slots |-> read_from_memory(filled, ty,
                                                     ResultOffset(local.offset, size))]
    /\ d_ops' = d_ops + 1
    /\ UNCHANGED <<notDv, d_var, d_datavars_types, d_imposed, d_store, d_last, d_pc>>

DvNext == DvDefine \/ DvSet \/ DvGet

SpecDataVar == DvInit /\ [][DvNext]_vars

\* the slots of a value of type ty
SlotsOf(ty, value) ==
    read_from_memory(write_to_memory([a \in Addr |-> 0], ty, 0, value), ty, 0)

C12_DeclaredType ==
    /\ d_datavars_types # <<>> => d_datavars_types = d_var.decl
    /\ d_imposed # <<>> => d_imposed = d_var.decl

(***************************************************************************)
(* compile: the definitions of names (constants.rs, data_vars.rs,          *)
(* tokens.rs)                                                              *)
(***************************************************************************)
DefineForms ==
    {"define-constant", "define-data-var", "define-fungible-token",
     "define-non-fungible-token"}

DefinedNames == {"map", "index-of?", "a", "b"}

MaxDefinitions == 2

\* generator.is_reserved_name: index-of? is not yet reserved in epoch 2.0
is_reserved_name(name, epoch) ==
    name = "map" \/ (name = "index-of?" /\ epoch # "Epoch20")

\* run_analysis: the checker rejects a name that is defined a second time
run_analysis(contract) ==
    IF \E i, j \in 1..Len(contract) : i < j /\ contract[i].name = contract[j].name
    THEN "NameAlreadyUsed" ELSE "none"

NmInit ==
    /\ memory = <<>>
    /\ n_contract \in UNION {[1..n -> [form : DefineForms, name : DefinedNames]] :
                                n \in 1..MaxDefinitions}
    /\ n_epoch \in {"Epoch20", "Epoch25"}
    /\ n_tables = {} /\ n_i = 1 /\ n_pc = "analysis" /\ n_err = "none"
    /\ OthersIdle("n")

\* compile: the analysis passes run before the generator
NmAnalysis ==
    /\ n_pc = "analysis"
    /\ n_err' = run_analysis(n_contract)
    /\ n_pc' = IF n_err' = "none" THEN "generate" ELSE "failed"
    /\ UNCHANGED <<memory, notNm, n_contract, n_epoch, n_tables, n_i>>

\* the check every traverse of a definition starts with
NoCheck(reserved) == "none"

ReservedCheck(reserved) == IF reserved THEN "InternalError" ELSE "none"

\* the traverse of one definition: the name must not be reserved; a data
\* variable must not already be in datavars_types; the name is recorded
NmGenerate ==
    /\ n_pc = "generate" /\ n_i <= Len(n_contract)
    /\ LET def == n_contract[n_i]
           checked == ReservedCheck(is_reserved_name(def.name, n_epoch))
           twice == def.form = "define-data-var" /\ def \in n_tables
       IN  /\ n_err' = IF checked # "none" THEN checked
                       ELSE IF twice THEN "InternalError" ELSE "none"
           /\ n_tables' = IF checked = "none" THEN n_tables \cup {def} ELSE n_tables
    /\ n_pc' = IF n_err' # "none" THEN "failed" ELSE "generate"
    /\ n_i' = n_i + 1
    /\ UNCHANGED <<memory, notNm, n_contract, n_epoch>>

\* every definition is lowered: the module is returned
NmFinish ==
    /\ n_pc = "generate" /\ n_i > Len(n_contract)
    /\ n_pc' = "ok"
    /\ UNCHANGED <<memory, notNm, n_contract, n_epoch, n_tables, n_i, n_err>>

NmNext == NmAnalysis \/ NmGenerate \/ NmFinish

SpecNames == NmInit /\ [][NmNext]_vars

\* C13: a compilation never succeeds on a contract that defines a reserved
\* name or defines a name twice with the same form, and never fails on a
\* single definition of a name that is not reserved
C13_Names ==
    LET reserved == \E i \in 1..Len(n_contract) :
                        is_reserved_name(n_contract[i].name, n_epoch)
        twice == \E i, j \in 1..Len(n_contract) : i < j /\ n_contract[i] = n_contract[j]
    IN  /\ n_pc = "ok" => ~reserved /\ ~twice
        /\ n_pc = "failed" => n_err # "none" /\ (Len(n_contract) = 1 => reserved)

\* (define-constant map ..) has failed in the generator
C13_Witness ==
    /\ n_pc = "failed" /\ n_err = "InternalError"
    /\ n_contract = <<[form |-> "define-constant", name |-> "map"]>>


(***************************************************************************)
(* words/options.rs, words/stx.rs, error_mapping.rs: the argument count    *)
(* of is-some, is-none, stx-transfer? and stx-transfer-memo?               *)
(***************************************************************************)

\* the number of arguments each form requires
RequiredArgs(form) ==
    CASE form \in {"is-some", "is-none"} -> 1
      [] form = "stx-transfer?" -> 3
      [] form = "stx-transfer-memo?" -> 4

MaxArity == 5

\* the offset of the i-th region of the pool
RECURSIVE PoolOffset(_, _)
PoolOffset(pool, i) ==
    IF i <= 1 THEN 0 ELSE PoolOffset(pool, i - 1) + Len(pool[i - 1])

\* add_literal of an integer: its region is the 16 little-endian bytes; a
\* region the pool already holds is not added again
add_literal(pool, value) ==
    IF \E i \in 1..Len(pool) : pool[i] = value.bytes
    THEN LET i == CHOOSE j \in 1..Len(pool) : pool[j] = value.bytes
         IN  [pool |-> pool, offset |-> PoolOffset(pool, i), len |-> 16]
    ELSE [pool |-> Append(pool, value.bytes),
          offset |-> PoolOffset(pool, Len(pool) + 1), len |-> 16]

RECURSIVE PoolBytes(_, _)
PoolBytes(pool, i) ==
    IF i > Len(pool) THEN <<>> ELSE pool[i] \o PoolBytes(pool, i + 1)

\* the literals the pool holds before the form is lowered
EarlierLiterals(form) ==
    {<<>>, <<VUInt(RequiredArgs(form)).bytes, VUInt(9).bytes>>,
     <<VUInt(9).bytes>>}

AcInit ==
    /\ c_form \in {"is-some", "is-none", "stx-transfer?", "stx-transfer-memo?"}
    /\ c_n \in 0..MaxArity
    /\ c_pool \in EarlierLiterals(c_form)
    /\ c_globals = [code |-> -1, arg_offset |-> 0, arg_len |-> 0]
    /\ c_pc = "start"
    /\ c_error = [k |-> "none"]
    /\ memory = [a \in Addr |-> 0]
    /\ OthersIdle("c")

\* traverse: with a wrong number of arguments the code that reports it is
\* emitted, and then the arguments are fetched and traversed all the same
AcTraverse ==
    /\ c_pc = "start"
    /\ LET required == RequiredArgs(c_form)
           expected == add_literal(c_pool, VUInt(required))
           got == add_literal(expected.pool, VUInt(c_n))
           pool == IF c_n # required THEN got.pool ELSE c_pool
       IN  /\ c_pool' = pool
           /\ c_globals' = IF c_n # required
                           THEN [c_globals EXCEPT
                                    !.arg_offset = expected.offset,
                                    !.arg_len = expected.len + got.len,
                                    !.code = 13]
                           ELSE c_globals
           /\ memory' = MemWrite(memory, 0, PoolBytes(pool, 1))
           \* args.get_expr(i) for the arguments the form requires
           /\ c_pc' = IF c_n < required THEN "generator-error"
                      ELSE IF c_n # required THEN "emitted"
                      ELSE "lowered"
    /\ UNCHANGED <<c_form, c_n, c_error, notAc>>

\* the emitted code runs: the globals are set and stdlib.runtime-error traps
AcRun ==
    /\ c_pc \in {"emitted", "lowered"}
    /\ c_pc' = IF c_pc = "emitted" THEN "trap" ELSE "returned"
    /\ UNCHANGED <<memory, c_form, c_n, c_pool, c_globals, c_error, notAc>>

\* resolve_error on the unreachable trap
AcResolve ==
    /\ c_pc = "trap"
    /\ LET e == IF ErrorMapFrom(c_globals.code) = "ArgumentCountMismatch"
                THEN ArgumentCountMismatchArm(memory, c_globals.arg_offset,
                                              c_globals.arg_len)
                ELSE [k |-> from_runtime_error_code(c_globals.code, memory,
                                                    c_globals, RErr("not thrown"))]
       IN  /\ c_error' = e
           /\ c_pc' = IF e.k = "panic" THEN "panic" ELSE "reported"
    /\ UNCHANGED <<memory, c_form, c_n, c_pool, c_globals, notAc>>

AcNext == AcTraverse \/ AcRun \/ AcResolve

SpecArgCount == AcInit /\ [][AcNext]_vars

\* C14: a form applied to a number of arguments other than the one it
\* requires ends with the error IncorrectArgumentCount(required, n), decoded
\* from the bytes that runtime-error-arg-offset and runtime-error-arg-len
\* designate: the generator does not fail, the resolver does not abort, and
\* the pair it reports is (required, n)
C14_ArgumentCount ==
    (c_pc # "idle" /\ c_n # RequiredArgs(c_form)) =>
        /\ c_pc \notin {"generator-error", "panic"}
        /\ c_pc = "reported" =>
               c_error = [k |-> "IncorrectArgumentCount",
                          expected |-> RequiredArgs(c_form), got |-> c_n]


(***************************************************************************)
(* error_mapping.rs: resolve_error                                         *)
(***************************************************************************)

\* the values of runtime-error-code: the table, and integers outside it
Codes == (-3..15) \cup {98, 99, 100, 2147483647, -2147483647 - 1}

\* "expected: 3 got: 4"
CarriedText ==
    <<101, 120, 112, 101, 99, 116, 101, 100, 58, 32, 51, 32, 103, 111, 116, 58,
      32, 52>>

\* what the arg globals designate: the text, or two integer literals
Carried == {CarriedText, VUInt(3).bytes \o VUInt(4).bytes}

\* the root causes: a Clarity Error, a CheckErrors, a trap, anything else
RootCauses ==
    {<<"Error", "none">>, <<"CheckErrors", "none">>, <<"other", "none">>,
     <<"Trap", "UnreachableCodeReached">>, <<"Trap", "MemoryOutOfBounds">>}

RsInit ==
    /\ \E rc \in RootCauses : r_root = rc[1] /\ r_trap = rc[2]
    /\ \E code \in Codes, carried \in Carried :
          /\ r_globals = [code |-> code, arg_offset |-> 0, arg_len |-> Len(carried)]
          /\ memory = MemWrite([a \in Addr |-> 0], 0, carried)
    /\ r_thrown \in {ROk(VInt(1)), RErr("unreadable")}
    /\ r_variant = "none"
    /\ r_pc = "error"
    /\ r_result = "none"
    /\ OthersIdle("r")

\* a downcast that never succeeds
NoDowncast(root, type) == FALSE

\* e.root_cause().downcast_ref::<type>()
DowncastRef(root, type) == root = type

\* if let Some(vm_error) = e.root_cause().downcast_ref::<Error>()
RsError ==
    /\ r_pc = "error"
    /\ IF DowncastRef(r_root, "Error")
       THEN r_pc' = "returned" /\ r_result' = "Error(attached)"
       ELSE r_pc' = "check-errors" /\ r_result' = r_result
    /\ UNCHANGED <<memory, r_root, r_trap, r_globals, r_thrown, r_variant, notRs>>

\* if let Some(vm_error) = e.root_cause().downcast_ref::<CheckErrors>()
RsCheckErrors ==
    /\ r_pc = "check-errors"
    /\ IF DowncastRef(r_root, "CheckErrors")
       THEN r_pc' = "returned" /\ r_result' = "Error(from CheckErrors)"
       ELSE r_pc' = "trap" /\ r_result' = r_result
    /\ UNCHANGED <<memory, r_root, r_trap, r_globals, r_thrown, r_variant, notRs>>

\* if let Some(Trap::UnreachableCodeReached) = ...: from_runtime_error_code
RsTrap ==
    /\ r_pc = "trap"
    /\ IF DowncastRef(r_root, "Trap") /\ r_trap = "UnreachableCodeReached"
       THEN LET e == from_runtime_error_code(r_globals.code, memory, r_globals,
                                             r_thrown)
            IN  /\ r_variant' = ErrorMapFrom(r_globals.code)
                /\ r_result' = e
                /\ r_pc' = IF e = "panic" THEN "panic" ELSE "returned"
       ELSE r_pc' = "other" /\ UNCHANGED <<r_variant, r_result>>
    /\ UNCHANGED <<memory, r_root, r_trap, r_globals, r_thrown, notRs>>

\* Error::Wasm(WasmError::Runtime(e))
RsOther ==
    /\ r_pc = "other"
    /\ r_pc' = "returned"
    /\ r_result' = "Wasm(Runtime)"
    /\ UNCHANGED <<memory, r_root, r_trap, r_globals, r_thrown, r_variant, notRs>>

RsNext == RsError \/ RsCheckErrors \/ RsTrap \/ RsOther

SpecResolve == RsInit /\ [][RsNext]_vars

\* C15: an attached Clarity Error is returned, else an attached CheckErrors
\* converted to an Error, both whatever runtime-error-code holds and without
\* reading it; runtime-error-code is read only for an unreachable trap with
\* neither attached; every other failure comes back as Wasm(Runtime)
C15_ResolveOrder ==
    r_pc \in {"returned", "panic"} =>
        /\ r_root = "Error" => r_result = "Error(attached)" /\ r_variant = "none"
        /\ r_root = "CheckErrors" =>
               r_result = "Error(from CheckErrors)" /\ r_variant = "none"
        /\ r_variant # "none" <=>
               (r_root = "Trap" /\ r_trap = "UnreachableCodeReached")
        /\ (r_root = "other" \/ (r_root = "Trap" /\ r_trap # "UnreachableCodeReached"))
               => r_result = "Wasm(Runtime)"

\* an attached Error is returned although runtime-error-code holds a code of
\* the table
C15_Witness ==
    /\ r_pc = "returned" /\ r_root = "Error" /\ r_globals.code = 0
    /\ r_result = "Error(attached)"

\* C16: on an unreachable trap with nothing attached the resolver returns an
\* error for every value of runtime-error-code, in the table or outside it,
\* and does not abort (the carried text and the thrown value being readable)
C16_NeverAborts ==
    (/\ r_root = "Trap" /\ r_trap = "UnreachableCodeReached"
     /\ r_thrown.err = "none"
     /\ MemRead(memory, 0, r_globals.arg_len) = CarriedText)
        => r_pc # "panic"

\* C17: the conversion from integers is the inverse of the numbering of the
\* variants: From(v as i32) = v for every variant, no two variants have the
\* same number, and the code the resolver reads is converted to the variant
\* of that number, or to NotMapped when no variant has it
C17_CodesClosed ==
    /\ \A v \in Variants : ErrorMapFrom(AsI32(v)) = v
    /\ \A v, w \in Variants : AsI32(v) = AsI32(w) => v = w
    /\ {AsI32(v) : v \in Variants} = (-1..13) \cup {99}
    /\ r_variant # "none" =>
           /\ \A v \in Variants : AsI32(v) = r_globals.code => r_variant = v
           /\ (\A v \in Variants : AsI32(v) # r_globals.code) =>
                  r_variant = "NotMapped"

\* the resolver has converted an integer outside the table
C17_Witness ==
    /\ r_pc # "idle" /\ r_variant = "NotMapped" /\ r_globals.code = 100


(***************************************************************************)
(* words/stx.rs, words/tokens.rs, words/equal.rs: the order in which the   *)
(* arguments of a form are evaluated                                       *)
(***************************************************************************)

\* an instruction of the emitted code: the code of argument arg, or op
Eval(arg) == [op |-> "eval", arg |-> arg]

Ins(op, arg) == [op |-> op, arg |-> arg]

\* the arguments from to down to from, last one first
TraverseArgsReversed(from, to) == [i \in 1..(to - from + 1) |-> Eval(to - i + 1)]

\* successive generator.traverse_expr(builder, args[i]) for i = from .. to
TraverseArgs(from, to) == [i \in 1..(to - from + 1) |-> Eval(from + i - 1)]

\* StxTransfer::traverse, StxTransferMemo::traverse
StxTraverse(form) ==
    TraverseArgs(0, IF form = "stx-transfer?" THEN 2 ELSE 3)
    \o <<Ins("call", 0)>>

\* the index of the last argument of a token form (args[0] is the token name)
LastArg(form) ==
    CASE form \in {"ft-transfer?", "nft-transfer?"} -> 3
      [] form \in {"ft-burn?", "ft-mint?", "nft-burn?", "nft-mint?"} -> 2
      [] form \in {"ft-get-balance", "nft-get-owner?"} -> 1

\* the traverse of ft-burn?, ft-transfer?, ft-mint?, ft-get-balance
FtTraverse(form) ==
    <<Ins("token-name", 0)>> \o TraverseArgs(1, LastArg(form)) \o <<Ins("call", 0)>>

\* the traverse of nft-burn?, nft-transfer?, nft-mint?, nft-get-owner?: the
\* identifier is written to the call stack once it has been evaluated
NftTraverse(form) ==
    <<Ins("token-name", 0)>> \o TraverseArgs(1, 1)
    \o <<Ins("create_call_stack_local", 1), Ins("write_to_memory", 1),
         Ins("offset-size", 1)>>
    \o TraverseArgs(2, LastArg(form)) \o <<Ins("call", 0)>>

\* the body of the loop of IsEq::traverse for the operands from i on
RECURSIVE IsEqOperands(_, _)
IsEqOperands(i, n) ==
    IF i >= n THEN <<>>
    ELSE TraverseArgs(i, i)
         \o <<Ins("assign_to_locals", i), Ins("wasm_equal", i), Ins("and", i)>>
         \o IsEqOperands(i + 1, n)

\* IsEq::traverse
IsEqTraverse(n) ==
    TraverseArgs(0, 0)
    \o (IF n = 1 THEN <<Ins("drop_value", 0), Ins("const", 1)>>
        ELSE <<Ins("assign_first_operand_to_locals", 0), Ins("const", 1)>>
             \o IsEqOperands(1, n))

StxForms == {"stx-transfer?", "stx-transfer-memo?"}

FtForms == {"ft-burn?", "ft-transfer?", "ft-mint?", "ft-get-balance"}

NftForms == {"nft-burn?", "nft-transfer?", "nft-mint?", "nft-get-owner?"}

\* the indices of the arguments that are expressions
FirstArg(form) == IF form \in FtForms \cup NftForms THEN 1 ELSE 0

ArgsOf(form, n) ==
    IF form = "stx-transfer?" THEN 0..2
    ELSE IF form = "stx-transfer-memo?" THEN 0..3
    ELSE IF form = "is-eq" THEN 0..(n - 1)
    ELSE 1..LastArg(form)

TrInit ==
    /\ t_form \in StxForms \cup FtForms \cup NftForms \cup {"is-eq"}
    /\ t_n \in IF t_form = "is-eq" THEN 1..MaxOperands
               ELSE {Cardinality(ArgsOf(t_form, 0))}
    /\ t_fail \in {-1} \cup ArgsOf(t_form, t_n)
    /\ t_code = <<>>
    /\ t_ip = 0
    /\ t_trace = <<>>
    /\ t_pc = "start"
    /\ memory = <<>>
    /\ OthersIdle("t")

\* the traverse of the form
TrTraverse ==
    /\ t_pc = "start"
    /\ t_code' = (IF t_form \in StxForms THEN StxTraverse(t_form)
                  ELSE IF t_form \in FtForms THEN FtTraverse(t_form)
                  ELSE IF t_form \in NftForms THEN NftTraverse(t_form)
                  ELSE IsEqTraverse(t_n))
    /\ t_ip' = 1
    /\ t_pc' = "run"
    /\ UNCHANGED <<memory, t_form, t_n, t_fail, t_trace, notTr>>

\* the code of an argument runs: its effects happen now, or it traps
TrEval ==
    /\ t_pc = "run" /\ t_ip <= Len(t_code) /\ t_code[t_ip].op = "eval"
    /\ t_trace' = Append(t_trace, t_code[t_ip])
    /\ IF t_code[t_ip].arg = t_fail
       THEN t_pc' = "trap" /\ t_ip' = t_ip
       ELSE /\ t_ip' = t_ip + 1
            /\ t_pc' = IF t_ip = Len(t_code) THEN "done" ELSE "run"
    /\ UNCHANGED <<memory, t_form, t_n, t_fail, t_code, notTr>>

\* another instruction runs
TrInstr ==
    /\ t_pc = "run" /\ t_ip <= Len(t_code) /\ t_code[t_ip].op # "eval"
    /\ t_trace' = IF t_code[t_ip].op = "write_to_memory"
                  THEN Append(t_trace, t_code[t_ip]) ELSE t_trace
    /\ t_ip' = t_ip + 1
    /\ t_pc' = IF t_ip = Len(t_code) THEN "done" ELSE "run"
    /\ UNCHANGED <<memory, t_form, t_n, t_fail, t_code, notTr>>

TrNext == TrTraverse \/ TrEval \/ TrInstr

SpecOrder == TrInit /\ [][TrNext]_vars

\* the arguments evaluated so far, in the order they were evaluated in
Evaluated == SelectSeq(t_trace, LAMBDA e : e.op = "eval")

\* C20: the arguments of stx-transfer?, stx-transfer-memo?, the ft- and nft-
\* forms and is-eq are evaluated first to last as written, none twice, and
\* all of them once the form has run to its end; the identifier of an nft
\* form is written to memory before the sender or recipient is evaluated
C20_SourceOrder ==
    t_pc \in {"run", "trap", "done"} =>
        /\ \A p \in 1..Len(Evaluated) :
               Evaluated[p].arg = FirstArg(t_form) + p - 1
        /\ t_pc = "done" =>
               {Evaluated[p].arg : p \in 1..Len(Evaluated)} = ArgsOf(t_form, t_n)
        /\ t_form \in NftForms =>
               \A p \in 1..Len(t_trace) :
                   (t_trace[p].op = "eval" /\ t_trace[p].arg >= 2) =>
                       \E q \in 1..(p - 1) :
                           t_trace[q] = Ins("write_to_memory", 1)

\* nft-transfer? has run to its end: identifier, its write, sender, recipient
C20_Witness ==
    /\ t_pc = "done" /\ t_form = "nft-transfer?"
    /\ t_trace = <<Eval(1), Ins("write_to_memory", 1), Eval(2), Eval(3)>>


(***************************************************************************)
(* words/stx.rs and the host functions stx_burn, stx_transfer,             *)
(* stx_get_balance                                                         *)
(***************************************************************************)

\* StxErrorCodes
NOT_ENOUGH_BALANCE == 1

SENDER_IS_RECIPIENT == 2

NON_POSITIVE_AMOUNT == 3

SENDER_IS_NOT_TX_SENDER == 4

\* the transient principal, which is tx-sender, and two others
Principals == {"S1G2081040G2081040G2081040G208105NK8PE5",
               "ST1PQHQKV0RJXZFY1DGX8MNSNYVE3VGZJSRTPGZGM",
               "SP000000000000000000002Q6VF78"}

MaxBalance == 3

\* (ok true) and (err code), with the balances afterwards
StxOk(balances) == [committed |-> TRUE, code |-> 0, balances |-> balances]

StxErr(code, balances) == [committed |-> FALSE, code |-> code, balances |-> balances]

\* stx_burn with the sender compared with tx-sender before the amount is
\* looked at
stx_burn_sender_first(balances, tx_sender, amount, sender) ==
    IF sender # tx_sender THEN StxErr(SENDER_IS_NOT_TX_SENDER, balances)
    ELSE IF amount = 0 THEN StxErr(NON_POSITIVE_AMOUNT, balances)
    ELSE IF amount > balances[sender] THEN StxErr(NOT_ENOUGH_BALANCE, balances)
    ELSE StxOk([balances EXCEPT ![sender] = @ - amount])

\* the host function behind stdlib.stx_burn
stx_burn(balances, tx_sender, amount, sender) ==
    IF amount = 0 THEN StxErr(NON_POSITIVE_AMOUNT, balances)
    ELSE IF sender # tx_sender THEN StxErr(SENDER_IS_NOT_TX_SENDER, balances)
    ELSE IF amount > balances[sender] THEN StxErr(NOT_ENOUGH_BALANCE, balances)
    ELSE StxOk([balances EXCEPT ![sender] = @ - amount])

\* stx_transfer that debits the sender and credits nobody
stx_transfer_debit_only(balances, tx_sender, amount, sender, recipient) ==
    IF amount = 0 THEN StxErr(NON_POSITIVE_AMOUNT, balances)
    ELSE IF sender = recipient THEN StxErr(SENDER_IS_RECIPIENT, balances)
    ELSE IF sender # tx_sender THEN StxErr(SENDER_IS_NOT_TX_SENDER, balances)
    ELSE IF amount > balances[sender] THEN StxErr(NOT_ENOUGH_BALANCE, balances)
    ELSE StxOk([balances EXCEPT ![sender] = @ - amount])

\* the host function behind stdlib.stx_transfer, with or without a memo
stx_transfer(balances, tx_sender, amount, sender, recipient) ==
    IF amount = 0 THEN StxErr(NON_POSITIVE_AMOUNT, balances)
    ELSE IF sender = recipient THEN StxErr(SENDER_IS_RECIPIENT, balances)
    ELSE IF sender # tx_sender THEN StxErr(SENDER_IS_NOT_TX_SENDER, balances)
    ELSE IF amount > balances[sender] THEN StxErr(NOT_ENOUGH_BALANCE, balances)
    ELSE StxOk([balances EXCEPT ![sender] = @ - amount,
                                ![recipient] = @ + amount])

\* the host function behind stdlib.stx_get_balance
stx_get_balance(balances, owner) == balances[owner]

\* a form that was evaluated
Evaluation(form, amount, sender, recipient, before, committed, code) ==
    [form |-> form, amount |-> amount, sender |-> sender,
     recipient |-> recipient, before |-> before, committed |-> committed,
     code |-> code]

NoEvaluation ==
    Evaluation("none", 0, "none", "none", <<>>, TRUE, 0)

LgInit ==
    /\ l_balances \in [Principals -> 0..(MaxBalance - 1)]
    /\ l_tx_sender = "S1G2081040G2081040G2081040G208105NK8PE5"
    /\ l_pc = "a-balance"
    /\ l_prev = NoEvaluation
    /\ l_last = NoEvaluation
    /\ memory = <<>>
    /\ OthersIdle("l")

\* (stx-burn? amount sender): StxBurn::visit calls stdlib.stx_burn
LgBurn ==
    /\ l_pc = "b-form"
    /\ \E amount \in 0..MaxBalance, sender \in Principals :
          LET r == stx_burn(l_balances, l_tx_sender, amount, sender)
          IN  /\ l_balances' = r.balances
              /\ l_last' = Evaluation("stx-burn?", amount, sender, "none",
                                      l_balances, r.committed, r.code)
    /\ l_prev' = l_last
    /\ l_pc' = "c-balance"
    /\ UNCHANGED <<memory, l_tx_sender, notLg>>

\* (stx-transfer? amount sender recipient)
LgTransfer ==
    /\ l_pc = "b-form"
    /\ \E amount \in 0..MaxBalance, sender \in Principals, recipient \in Principals :
          LET r == stx_transfer(l_balances, l_tx_sender, amount, sender, recipient)
          IN  /\ l_balances' = r.balances
              /\ l_last' = Evaluation("stx-transfer?", amount, sender, recipient,
                                      l_balances, r.committed, r.code)
    /\ l_prev' = l_last
    /\ l_pc' = "c-balance"
    /\ UNCHANGED <<memory, l_tx_sender, notLg>>

\* (stx-transfer-memo? amount sender recipient memo)
LgTransferMemo ==
    /\ l_pc = "b-form"
    /\ \E amount \in 0..MaxBalance, sender \in Principals, recipient \in Principals :
          LET r == stx_transfer(l_balances, l_tx_sender, amount, sender, recipient)
          IN  /\ l_balances' = r.balances
              /\ l_last' = Evaluation("stx-transfer-memo?", amount, sender,
                                      recipient, l_balances, r.committed, r.code)
    /\ l_prev' = l_last
    /\ l_pc' = "c-balance"
    /\ UNCHANGED <<memory, l_tx_sender, notLg>>

\* (stx-get-balance owner): the balance is the code of the result
LgGetBalance ==
    /\ l_pc \in {"a-balance", "c-balance"}
    /\ \E owner \in Principals :
          l_last' = Evaluation("stx-get-balance", 0, owner, "none", l_balances,
                               TRUE, stx_get_balance(l_balances, owner))
    /\ l_prev' = l_last
    /\ l_pc' = IF l_pc = "a-balance" THEN "b-form" ELSE "done"
    /\ UNCHANGED <<memory, l_balances, l_tx_sender, notLg>>

LgNext == LgBurn \/ LgTransfer \/ LgTransferMemo \/ LgGetBalance

SpecLedger == LgInit /\ [][LgNext]_vars

RECURSIVE SumOver(_, _)
SumOver(balances, ps) ==
    IF ps = {} THEN 0
    ELSE LET p == CHOOSE q \in ps : TRUE
         IN  balances[p] + SumOver(balances, ps \ {p})

\* C22: a successful transfer, with or without memo, takes the amount from
\* the sender and gives it to the recipient, so the sum of the balances is
\* unchanged, and a stx-get-balance evaluated next returns the new balances;
\* a transfer that returns err returns one of u1..u4 for the reason the code
\* stands for and changes no balance
C22_StxTransfer ==
    /\ l_last.form \in {"stx-transfer?", "stx-transfer-memo?"} =>
          LET b == l_last.before
              a == l_last.amount
              p == l_last.sender
              r == l_last.recipient
          IN  /\ l_last.committed =>
                     /\ l_balances[p] = b[p] - a
                     /\ l_balances[r] = b[r] + a
                     /\ \A q \in Principals \ {p, r} : l_balances[q] = b[q]
                     /\ SumOver(l_balances, Principals) = SumOver(b, Principals)
              /\ ~l_last.committed =>
                     /\ l_balances = b
                     /\ l_last.code \in 1..4
                     /\ l_last.code = 1 => a > b[p]
                     /\ l_last.code = 2 => p = r
                     /\ l_last.code = 3 => a = 0
                     /\ l_last.code = 4 => p # l_tx_sender
    /\ (/\ l_last.form = "stx-get-balance"
        /\ l_prev.form \in {"stx-transfer?", "stx-transfer-memo?"}
        /\ l_prev.committed) =>
          /\ l_last.sender = l_prev.sender =>
                 l_last.code = l_prev.before[l_prev.sender] - l_prev.amount
          /\ l_last.sender = l_prev.recipient =>
                 l_last.code = l_prev.before[l_prev.recipient] + l_prev.amount

\* the balance of the recipient is read after a transfer with a memo
C22_Witness ==
    /\ l_last.form = "stx-get-balance"
    /\ l_prev.form = "stx-transfer-memo?" /\ l_prev.committed
    /\ l_last.sender = l_prev.recipient
    /\ l_last.code = l_prev.before[l_prev.recipient] + l_prev.amount


(***************************************************************************)
(* tools.rs: TestEnvironment and the crosscheck functions                  *)
(***************************************************************************)

\* the starting balance given to the transient principal
StartingAmount == 1000000000

MaxCount == 3

\* TestEnvironment::new: the epoch is set and the transient principal is
\* credited, the liquid supply raised by the same amount
TestEnvironment_new(epoch) ==
    [epoch |-> epoch, tip |-> 0, balance |-> StartingAmount,
     supply |-> StartingAmount]

\* TestEnvironment::advance_chain_tip
advance_chain_tip(env, count) == [env EXCEPT !.tip = @ + count]

\* what a snippet evaluates to in the state it starts from
SnippetResult(state, snippet) ==
    CASE snippet = "(stx-get-balance tx-sender)" -> state.balance
      [] snippet = "stx-liquid-supply" -> state.supply
      [] snippet = "block-height" -> state.tip
      [] snippet = "(+ 1 2)" -> 3

Run(state, snippet) == [start |-> state, result |-> SnippetResult(state, snippet)]

\* init_contract_with_snippet: the contract is initialised on the datastore
\* of the environment as it is
init_contract_with_snippet(env, snippet) == Run(env, snippet)

\* interpret_contract_with_snippet: the transient principal is credited and
\* the liquid supply raised before eval_all runs the snippet
interpret_contract_with_snippet(env, snippet) ==
    Run([env EXCEPT !.balance = @ + StartingAmount,
                    !.supply = @ + StartingAmount], snippet)

NoRun == [start |-> <<>>, result |-> 0]

XcInit ==
    /\ x_fn \in {"crosscheck", "crosscheck_compare_only",
                 "crosscheck_compare_only_advancing_tip"}
    /\ x_count \in IF x_fn = "crosscheck_compare_only_advancing_tip"
                   THEN 0..MaxCount ELSE {0}
    /\ x_snippet \in {"(stx-get-balance tx-sender)", "stx-liquid-supply",
                      "block-height", "(+ 1 2)"}
    /\ x_compiler_env = <<>>
    /\ x_interpreter_env = <<>>
    /\ x_compiled = NoRun
    /\ x_interpreted = NoRun
    /\ x_pc = "compiler-env"
    /\ memory = <<>>
    /\ OthersIdle("x")

\* the environment of the compiled run: evaluate_at, or TestEnvironment::new
\* followed by advance_chain_tip
XcCompilerEnv ==
    /\ x_pc = "compiler-env"
    /\ x_compiler_env' =
           IF x_fn = "crosscheck_compare_only_advancing_tip"
           THEN advance_chain_tip(TestEnvironment_new("latest"), x_count)
           ELSE TestEnvironment_new("latest")
    /\ x_pc' = "interpreter-env"
    /\ UNCHANGED <<memory, x_fn, x_count, x_snippet, x_interpreter_env,
                   x_compiled, x_interpreted, notXc>>

\* the environment of the interpreted run: interpret_at, or
\* compiler_env.clone()
XcInterpreterEnv ==
    /\ x_pc = "interpreter-env"
    /\ x_interpreter_env' =
           IF x_fn = "crosscheck_compare_only_advancing_tip"
           THEN x_compiler_env
           ELSE TestEnvironment_new("latest")
    /\ x_pc' = "evaluate"
    /\ UNCHANGED <<memory, x_fn, x_count, x_snippet, x_compiler_env,
                   x_compiled, x_interpreted, notXc>>

\* env.evaluate(snippet)
XcEvaluate ==
    /\ x_pc = "evaluate"
    /\ x_compiled' = init_contract_with_snippet(x_compiler_env, x_snippet)
    /\ x_pc' = "interpret"
    /\ UNCHANGED <<memory, x_fn, x_count, x_snippet, x_compiler_env,
                   x_interpreter_env, x_interpreted, notXc>>

\* env.interpret(snippet)
XcInterpret ==
    /\ x_pc = "interpret"
    /\ x_interpreted' = interpret_contract_with_snippet(x_interpreter_env, x_snippet)
    /\ x_pc' = "assert"
    /\ UNCHANGED <<memory, x_fn, x_count, x_snippet, x_compiler_env,
                   x_interpreter_env, x_compiled, notXc>>

\* assert_eq!(compiled, interpreted)
XcAssert ==
    /\ x_pc = "assert"
    /\ x_pc' = IF x_compiled.result = x_interpreted.result THEN "passed"
               ELSE "failed"
    /\ UNCHANGED <<memory, x_fn, x_count, x_snippet, x_compiler_env,
                   x_interpreter_env, x_compiled, x_interpreted, notXc>>

XcNext == XcCompilerEnv \/ XcInterpreterEnv \/ XcEvaluate \/ XcInterpret \/ XcAssert

SpecCrosscheck == XcInit /\ [][XcNext]_vars

\* C23: in the three crosscheck functions the compiled and the interpreted
\* run of the snippet start from the same state: the same epoch, chain tip,
\* STX balance of the test principal and liquid supply; so the two results
\* of a snippet are the same
C23_SameStart ==
    x_pc \in {"assert", "passed", "failed"} =>
        /\ x_compiled.start = x_interpreted.start
        /\ x_pc # "failed"


(***************************************************************************)
(* ab-tester/src/context/replay.rs: ChainStateReplayer                     *)
(***************************************************************************)

\* an Option<u32> that is None
None == -1

MaxHeight == 3

\* a callback or an operation on the target, for block i and transaction t
Event(e, i, t) == [e |-> e, i |-> i, t |-> t]

Genesis == [kind |-> "genesis", height |-> 0, txs |-> <<>>, fails |-> FALSE]

Regular(height, txs) ==
    [kind |-> "regular", height |-> height, txs |-> txs, fails |-> FALSE]

\* a block the target cannot begin
Failing(height) == [kind |-> "regular", height |-> height, txs |-> <<>>, fails |-> TRUE]

TxsA == <<"Coinbase", "SmartContract", "ContractCall">>

TxsB == <<"ContractCall", "TokenTransfer", "SmartContract", "PoisonMicroblock">>

\* the chains of the source
Chains ==
    {<<>>, <<Genesis>>, <<Genesis, Regular(1, TxsA)>>,
     <<Genesis, Regular(1, TxsB), Regular(2, TxsA)>>,
     <<Genesis, Regular(1, <<>>), Regular(2, TxsB), Regular(3, TxsA)>>,
     <<Genesis, Regular(1, TxsA), Failing(2), Regular(3, TxsB)>>}

\* the test of the count with the bound itself let through
assert_max_processed_block_count_inclusive(opts, processed_block_count) ==
    opts.max_blocks # None => processed_block_count <= opts.max_blocks

\* opts.assert_max_processed_block_count
assert_max_processed_block_count(opts, processed_block_count) ==
    opts.max_blocks # None => processed_block_count < opts.max_blocks

\* opts.assert_block_height_under_max_height
assert_block_height_under_max_height(opts, block_height) ==
    opts.to_height # None => block_height <= opts.to_height

\* opts.from_height.unwrap_or(0)
FromHeight(opts) == IF opts.from_height = None THEN 0 ELSE opts.from_height

\* the body of the loop over the transactions of a block, from t on
RECURSIVE ApplyTxs(_, _, _)
ApplyTxs(txs, i, t) ==
    IF t > Len(txs) THEN <<>>
    ELSE (CASE txs[t] = "SmartContract" ->
                 <<Event("as_transaction", i, t),
                   Event("analyze_smart_contract", i, t),
                   Event("initialize_smart_contract", i, t),
                   Event("transaction-end", i, t)>>
            [] txs[t] = "ContractCall" ->
                 <<Event("as_transaction", i, t),
                   Event("run_contract_call", i, t),
                   Event("transaction-end", i, t)>>
            [] OTHER -> <<>>)
         \o ApplyTxs(txs, i, t + 1)

\* replay_block_into with the commit left out
replay_block_into_uncommitted(block, i) ==
    <<Event("block_begin", i, 0), Event("chainstate.block_begin", i, 0)>>
    \o ApplyTxs(block.txs, i, 1)

\* replay_block_into: what is done to the target for a regular block
replay_block_into(block, i) ==
    <<Event("block_begin", i, 0), Event("chainstate.block_begin", i, 0)>>
    \o ApplyTxs(block.txs, i, 1)
    \o <<Event("commit_to_block", i, 0)>>

RpInit ==
    /\ p_blocks \in Chains
    /\ p_opts \in [from_height : {None} \cup 0..(MaxHeight - 1),
                   to_height : {None} \cup 0..(MaxHeight - 1),
                   max_blocks : {None} \cup 0..(MaxHeight - 1)]
    /\ p_i = 0
    /\ p_count = 0
    /\ p_log = <<>>
    /\ p_pc = "start"
    /\ p_result = "running"
    /\ memory = <<>>
    /\ OthersIdle("p")

\* source.blocks(), callbacks.replay_start
RpStart ==
    /\ p_pc = "start"
    /\ p_log' = Append(p_log, Event("replay_start", 0, 0))
    /\ p_i' = 1
    /\ p_pc' = IF Len(p_blocks) = 0 THEN "finish" ELSE "loop"
    /\ UNCHANGED <<memory, p_blocks, p_opts, p_count, p_result, notRp>>

\* the head of the loop: replay_block_start, the from-height test and the
\* two assertions
RpLoop ==
    /\ p_pc = "loop"
    /\ LET block == p_blocks[p_i]
       IN  /\ p_log' = Append(p_log, Event("replay_block_start", p_i, 0))
           /\ IF block.height < FromHeight(p_opts)
              THEN \* continue
                   /\ p_i' = p_i + 1
                   /\ p_pc' = IF p_i = Len(p_blocks) THEN "finish" ELSE "loop"
                   /\ p_result' = p_result
              ELSE IF ~assert_max_processed_block_count(p_opts, p_count)
                      \/ ~assert_block_height_under_max_height(p_opts, block.height)
              THEN /\ p_i' = p_i
                   /\ p_pc' = "done"
                   /\ p_result' = "graceful"
              ELSE /\ p_i' = p_i
                   /\ p_pc' = "block"
                   /\ p_result' = p_result
    /\ UNCHANGED <<memory, p_blocks, p_opts, p_count, notRp>>

\* replay_block_into for a regular block, target.block_begin for genesis
RpBlock ==
    /\ p_pc = "block"
    /\ LET block == p_blocks[p_i]
       IN  IF block.fails
           THEN /\ p_pc' = "done" /\ p_result' = "error" /\ p_log' = p_log
           ELSE /\ p_log' = p_log \o
                       (IF block.kind = "regular" THEN replay_block_into(block, p_i)
                        ELSE <<Event("block_begin", p_i, 0)>>)
                /\ p_pc' = "finish-block"
                /\ p_result' = p_result
    /\ UNCHANGED <<memory, p_blocks, p_opts, p_i, p_count, notRp>>

\* callbacks.replay_block_finish; processed_block_count += 1
RpBlockFinish ==
    /\ p_pc = "finish-block"
    /\ p_log' = Append(p_log, Event("replay_block_finish", p_i, 0))
    /\ p_count' = p_count + 1
    /\ p_i' = p_i + 1
    /\ p_pc' = IF p_i = Len(p_blocks) THEN "finish" ELSE "loop"
    /\ UNCHANGED <<memory, p_blocks, p_opts, p_result, notRp>>

\* callbacks.replay_finish
RpFinish ==
    /\ p_pc = "finish"
    /\ p_log' = Append(p_log, Event("replay_finish", 0, 0))
    /\ p_pc' = "done"
    /\ p_result' = "ok"
    /\ UNCHANGED <<memory, p_blocks, p_opts, p_i, p_count, notRp>>

RpNext == RpStart \/ RpLoop \/ RpBlock \/ RpBlockFinish \/ RpFinish

SpecReplay == RpInit /\ [][RpNext]_vars

\* the events e of the log, in order
Only(e) == SelectSeq(p_log, LAMBDA x : x.e = e)

\* the blocks of the source from height from_height on, up to index n
Eligible(n) == {i \in 1..n : p_blocks[i].height >= FromHeight(p_opts)}

\* C24: no block is begun in the target whose height is below from_height
\* or above to_height, at most max_blocks blocks are begun, blocks below
\* from_height are not counted, and at the first block from from_height on
\* that would exceed max_blocks or to_height the replay stops with the
\* Graceful error without beginning it
C24_ReplayLimits ==
    LET begun == Only("block_begin")
    IN  /\ \A k \in 1..Len(begun) :
               LET h == p_blocks[begun[k].i].height
               IN  /\ h >= FromHeight(p_opts)
                   /\ p_opts.to_height # None => h <= p_opts.to_height
        /\ p_opts.max_blocks # None => Len(begun) <= p_opts.max_blocks
        /\ p_count = Len(Only("replay_block_finish"))
        /\ p_count <= Len(begun)
        /\ p_result = "graceful" =>
               /\ p_i \in Eligible(Len(p_blocks))
               /\ \/ (p_opts.max_blocks # None /\ p_count >= p_opts.max_blocks)
                  \/ (p_opts.to_height # None
                      /\ p_blocks[p_i].height > p_opts.to_height)
               /\ \A k \in 1..Len(begun) : begun[k].i < p_i
        /\ p_result = "ok" =>
               {begun[k].i : k \in 1..Len(begun)} = Eligible(Len(p_blocks))

\* the replay stopped on max_blocks after it had begun two blocks, one of
\* them after a block that was skipped
C24_Witness ==
    /\ p_result = "graceful" /\ p_opts.max_blocks = 2 /\ p_opts.from_height = 1
    /\ Len(Only("block_begin")) = 2


\* the operations on the target, without the callbacks
TargetOps ==
    SelectSeq(p_log, LAMBDA x : x.e \notin {"replay_start", "replay_block_start",
                                           "replay_block_finish", "replay_finish"})

\* the names of the events of a sequence
Names_e(seq) == [k \in 1..Len(seq) |-> seq[k].e]

\* C25: blocks are replayed in the order of the source; a regular block is
\* begun, its deployments and contract calls are applied in block order,
\* each in a transaction of its own and a deployment analysed before it is
\* initialised, the other payloads apply nothing, and the block is committed
\* exactly once after its last transaction; a genesis block is only begun
C25_BlockOrder ==
    LET T == TargetOps
    IN  /\ \A a, b \in 1..Len(T) : a < b => T[a].i <= T[b].i
        /\ \A i \in {T[k].i : k \in 1..Len(T)} :
               LET seg == SelectSeq(T, LAMBDA x : x.i = i)
                   blk == p_blocks[i]
               IN  IF blk.kind = "genesis"
                   THEN seg = <<Event("block_begin", i, 0)>>
                   ELSE /\ seg[1].e = "block_begin"
                        /\ seg[2].e = "chainstate.block_begin"
                        /\ seg[Len(seg)].e = "commit_to_block"
                        /\ \A k \in 3..(Len(seg) - 1) : seg[k].t > 0
                        /\ \A a, b \in 3..(Len(seg) - 1) : a < b => seg[a].t <= seg[b].t
                        /\ \A t \in 1..Len(blk.txs) :
                               Names_e(SelectSeq(seg, LAMBDA x : x.t = t)) =
                                   (CASE blk.txs[t] = "SmartContract" ->
                                             <<"as_transaction", "analyze_smart_contract",
                                               "initialize_smart_contract", "transaction-end">>
                                      [] blk.txs[t] = "ContractCall" ->
                                             <<"as_transaction", "run_contract_call",
                                               "transaction-end">>
                                      [] OTHER -> <<>>)

\* a whole chain of a genesis block and three regular blocks was replayed
C25_Witness ==
    /\ p_result = "ok" /\ Len(p_blocks) = 4 /\ p_count = 4
    /\ Len(Only("commit_to_block")) = 3 /\ Len(Only("initialize_smart_contract")) = 2

\* the callbacks called, in order
Callbacks ==
    SelectSeq(p_log, LAMBDA x : x.e \in {"replay_start", "replay_block_start",
                                        "replay_block_finish", "replay_finish"})

\* C26: replay_start is called once and first, every replay_block_start is
\* followed by its replay_block_finish before the next replay_block_start,
\* and once the replay has returned replay_finish was called once and last
C26_Callbacks ==
    LET cb == Callbacks
    IN  /\ p_pc # "start" =>
               /\ p_log[1].e = "replay_start"
               /\ Len(Only("replay_start")) = 1
        /\ \A a, b \in 1..Len(cb) :
               (a < b /\ cb[a].e = "replay_block_start" /\ cb[b].e = "replay_block_start")
                   => \E k \in (a + 1)..(b - 1) : cb[k].e = "replay_block_finish"
        /\ p_pc = "done" =>
               /\ p_log[Len(p_log)].e = "replay_finish"
               /\ Len(Only("replay_finish")) = 1


(***************************************************************************)
(* ab-tester/src/db/dbcursor.rs: RecordCursor                              *)
(***************************************************************************)

MaxRows == 5

MaxCapacity == 3

MaxFailures == 2

\* query.offset(offset).limit(limit).load(): the rows of the page
Load(rows, offset, limit) ==
    [k \in 1..(IF offset >= rows THEN 0
               ELSE IF offset + limit > rows THEN rows - offset ELSE limit)
        |-> offset + k]

\* the cursor moved on by a single row
AdvanceOne(cursor, fetch_amt) == cursor + 1

\* self.cursor += fetch_amt
Advance(cursor, fetch_amt) == cursor + fetch_amt

KcInit ==
    /\ k_rows \in 0..MaxRows
    /\ k_capacity \in 0..MaxCapacity
    /\ k_cursor = 0
    /\ k_buffer = <<>>
    /\ k_requests = <<>>
    /\ k_yielded = <<>>
    /\ k_failed = 0
    /\ k_before = 0
    /\ k_last = "new"
    /\ memory = <<>>
    /\ OthersIdle("k")

\* next with a record in the buffer
KcPop ==
    /\ k_last # "None"
    /\ k_buffer # <<>>
    /\ k_yielded' = Append(k_yielded, Head(k_buffer))
    /\ k_buffer' = Tail(k_buffer)
    /\ k_before' = k_cursor
    /\ k_last' = "Ok"
    /\ UNCHANGED <<memory, k_rows, k_capacity, k_cursor, k_requests, k_failed, notKc>>

\* next with an empty buffer and a page load that succeeds
KcFill ==
    /\ k_last # "None"
    /\ k_buffer = <<>>
    /\ LET fetch_amt == k_capacity
           results == Load(k_rows, k_cursor, fetch_amt)
       IN  /\ k_requests' = Append(k_requests, [offset |-> k_cursor, limit |-> fetch_amt])
           /\ k_cursor' = Advance(k_cursor, fetch_amt)
           /\ IF results = <<>>
              THEN /\ k_buffer' = <<>>
                   /\ k_yielded' = k_yielded
                   /\ k_last' = "None"
              ELSE /\ k_buffer' = Tail(results)
                   /\ k_yielded' = Append(k_yielded, Head(results))
                   /\ k_last' = "Ok"
    /\ k_before' = k_cursor
    /\ UNCHANGED <<memory, k_rows, k_capacity, k_failed, notKc>>

\* next with an empty buffer and a page load that fails
KcFillErr ==
    /\ k_last # "None"
    /\ k_buffer = <<>>
    /\ k_failed < MaxFailures
    /\ LET fetch_amt == k_capacity
       IN  /\ k_requests' = Append(k_requests, [offset |-> k_cursor, limit |-> fetch_amt])
           /\ k_cursor' = Advance(k_cursor, fetch_amt)
    /\ k_failed' = k_failed + 1
    /\ k_before' = k_cursor
    /\ k_last' = "Err"
    /\ UNCHANGED <<memory, k_rows, k_capacity, k_buffer, k_yielded, notKc>>

KcNext == KcPop \/ KcFill \/ KcFillErr

SpecCursor == KcInit /\ [][KcNext]_vars

\* C27: with every page load successful and a capacity c of at least 1 the
\* rows come out once each in query order, the pages requested are c rows
\* at 0, c, 2c, ..., None comes at the first empty page, the buffer holds at
\* most c records and the cursor is a multiple of c
C27_EveryRowOnce ==
    (k_failed = 0 /\ k_capacity >= 1) =>
        /\ k_yielded = [k \in 1..Len(k_yielded) |-> k]
        /\ Len(k_yielded) <= k_rows
        /\ \A j \in 1..Len(k_requests) :
               k_requests[j] = [offset |-> (j - 1) * k_capacity, limit |-> k_capacity]
        /\ \A j \in 1..Len(k_requests) :
               (Load(k_rows, k_requests[j].offset, k_requests[j].limit) = <<>>)
                   <=> (k_last = "None" /\ j = Len(k_requests))
        /\ k_last = "None" => Len(k_yielded) = k_rows
        /\ Len(k_buffer) <= k_capacity
        /\ k_cursor % k_capacity = 0
        /\ Len(k_yielded) + Len(k_buffer) = (IF k_cursor > k_rows THEN k_rows ELSE k_cursor)

\* five rows came out of pages of two and the iteration ended
C27_Witness ==
    /\ k_failed = 0 /\ k_capacity = 2 /\ k_rows = 5
    /\ k_last = "None" /\ k_yielded = <<1, 2, 3, 4, 5>> /\ Len(k_requests) = 4

\* C28: after a page load that failed the cursor is where it was before the
\* call, and an iteration that has ended has returned every row
C28_FailedLoadKeepsCursor ==
    /\ k_last = "Err" => k_cursor = k_before
    /\ k_last = "None" => k_yielded = [k \in 1..k_rows |-> k]


(***************************************************************************)
(* tools.rs: execute                                                       *)
(***************************************************************************)

MaxCalls == 3

MaxCredit == 2

\* the transaction is committed whatever the closure returned
commit_always(closure) == "commit"

\* what execute does to the transaction after the closure has returned
after_closure(closure) == IF closure = "Ok" THEN "commit" ELSE "roll_back"

ExInit ==
    /\ ex_store = 0
    /\ ex_open = <<>>
    /\ ex_log = <<>>
    /\ ex_closure = "not-run"
    /\ ex_result = "running"
    /\ ex_calls = 0
    /\ ex_pc = "call"
    /\ memory = <<>>
    /\ OthersIdle("e")

\* conn.begin()
ExBegin ==
    /\ ex_pc = "call"
    /\ ex_open' = Append(ex_open, ex_store)
    /\ ex_log' = <<"begin">>
    /\ ex_closure' = "not-run"
    /\ ex_result' = "running"
    /\ ex_calls' = ex_calls + 1
    /\ ex_pc' = "begun"
    /\ UNCHANGED <<memory, ex_store, notEx>>

\* f(conn): the closure writes in the open transaction and returns
ExClosure ==
    /\ ex_pc = "begun"
    /\ \E amount \in 0..MaxCredit, r \in {"Ok", "Err"} :
           /\ ex_open' = [ex_open EXCEPT ![Len(ex_open)] = @ + amount]
           /\ ex_closure' = r
    /\ ex_log' = Append(ex_log, "closure")
    /\ ex_pc' = "ran"
    /\ UNCHANGED <<memory, ex_store, ex_result, ex_calls, notEx>>

\* conn.commit().expect(..); Ok(result)
ExCommit ==
    /\ ex_pc = "ran"
    /\ after_closure(ex_closure) = "commit"
    /\ ex_log' = Append(ex_log, "commit")
    /\ \E done \in BOOLEAN :
           IF done
           THEN /\ ex_store' = ex_open[Len(ex_open)]
                /\ ex_open' = SubSeq(ex_open, 1, Len(ex_open) - 1)
                /\ ex_result' = ex_closure
           ELSE /\ UNCHANGED <<ex_store, ex_open>>
                /\ ex_result' = "panic"
    /\ ex_pc' = "returned"
    /\ UNCHANGED <<memory, ex_closure, ex_calls, notEx>>

\* conn.roll_back().expect(..); the error of the closure is returned
ExRollBack ==
    /\ ex_pc = "ran"
    /\ after_closure(ex_closure) = "roll_back"
    /\ ex_log' = Append(ex_log, "roll_back")
    /\ \E done \in BOOLEAN :
           IF done
           THEN /\ ex_open' = SubSeq(ex_open, 1, Len(ex_open) - 1)
                /\ ex_result' = ex_closure
           ELSE /\ UNCHANGED ex_open
                /\ ex_result' = "panic"
    /\ ex_pc' = "returned"
    /\ UNCHANGED <<memory, ex_store, ex_closure, ex_calls, notEx>>

\* the caller goes on to the next call of execute
ExAgain ==
    /\ ex_pc = "returned"
    /\ ex_result # "panic"
    /\ ex_calls < MaxCalls
    /\ ex_pc' = "call"
    /\ UNCHANGED <<memory, ex_store, ex_open, ex_log, ex_closure, ex_result, ex_calls, notEx>>

ExNext == ExBegin \/ ExClosure \/ ExCommit \/ ExRollBack \/ ExAgain

SpecExecute == ExInit /\ [][ExNext]_vars

\* C29: a call of execute that has returned has begun a transaction, run the
\* closure once, then committed if the closure returned Ok and rolled back
\* if it returned Err, never both, returns what the closure returned and
\* leaves no transaction open
C29_CommitOrRollBack ==
    /\ ex_log \in {<<>>, <<"begin">>, <<"begin", "closure">>,
                  <<"begin", "closure", "commit">>,
                  <<"begin", "closure", "roll_back">>}
    /\ (ex_pc = "returned" /\ ex_result # "panic") =>
           /\ ex_result = ex_closure
           /\ ex_closure = "Ok" <=> ex_log = <<"begin", "closure", "commit">>
           /\ ex_closure = "Err" <=> ex_log = <<"begin", "closure", "roll_back">>
           /\ ex_open = <<>>

\* a call that rolled back after an earlier call had committed a write
C29_Witness ==
    /\ ex_pc = "returned" /\ ex_result = "Err" /\ ex_calls = 2 /\ ex_store > 0
    /\ ex_log = <<"begin", "closure", "roll_back">>


(***************************************************************************)
(* tools.rs: TestEnvironment::init_contract_with_snippet                   *)
(***************************************************************************)

MaxInits == 3

ContractNames == {"foo", "bar"}

\* what is recorded in the environment
Recorded ==
    [analysis |-> ic_analysis, hash |-> ic_hash, contracts |-> ic_contracts,
     contexts |-> ic_contexts, wasm_cost |-> ic_wasm_cost]

IcInit ==
    /\ ic_analysis = {}
    /\ ic_hash = {}
    /\ ic_contracts = {}
    /\ ic_pending = {}
    /\ ic_contexts = {}
    /\ ic_wasm_cost = 0
    /\ ic_name = "foo"
    /\ ic_snippet = "ok"
    /\ ic_before = [analysis |-> {}, hash |-> {}, contracts |-> {},
                    contexts |-> {}, wasm_cost |-> 0]
    /\ ic_calls = 0
    /\ ic_result = "running"
    /\ ic_pc = "call"
    /\ memory = <<>>
    /\ OthersIdle("ic")

\* the call, with its contract name and snippet
IcCall ==
    /\ ic_pc \in {"call", "returned"}
    /\ ic_result # "panic"
    /\ ic_calls < MaxInits
    /\ ic_name' \in ContractNames
    /\ ic_snippet' \in {"ok", "compile-error", "runtime-error"}
    /\ ic_before' = Recorded
    /\ ic_calls' = ic_calls + 1
    /\ ic_result' = "running"
    /\ ic_pc' = "compile"
    /\ UNCHANGED <<memory, ic_analysis, ic_hash, ic_contracts, ic_pending,
                   ic_contexts, ic_wasm_cost, notIc>>

\* compile in a transaction of the analysis database; a failure returns
IcCompile ==
    /\ ic_pc = "compile"
    /\ IF ic_snippet = "compile-error"
       THEN ic_result' = "Err" /\ ic_pc' = "returned"
       ELSE ic_result' = ic_result /\ ic_pc' = "analysis"
    /\ UNCHANGED <<memory, ic_analysis, ic_hash, ic_contracts, ic_pending, ic_contexts,
                   ic_wasm_cost, ic_name, ic_snippet, ic_before, ic_calls, notIc>>

\* insert_contract in a transaction of the analysis database that is
\* committed; an analysis that is there already makes the expect panic
IcInsertAnalysis ==
    /\ ic_pc = "analysis"
    /\ IF ic_name \in ic_analysis
       THEN /\ ic_result' = "panic" /\ ic_pc' = "returned"
            /\ ic_analysis' = ic_analysis
       ELSE /\ ic_result' = ic_result /\ ic_pc' = "begin"
            /\ ic_analysis' = ic_analysis \cup {ic_name}
    /\ UNCHANGED <<memory, ic_hash, ic_contracts, ic_pending, ic_contexts,
                   ic_wasm_cost, ic_name, ic_snippet, ic_before, ic_calls, notIc>>

\* global_context.begin(); insert_contract_hash
IcBegin ==
    /\ ic_pc = "begin"
    /\ ic_pending' = {ic_name}
    /\ ic_pc' = "initialize"
    /\ UNCHANGED <<memory, ic_analysis, ic_hash, ic_contracts, ic_contexts, ic_wasm_cost,
                   ic_name, ic_snippet, ic_before, ic_calls, ic_result, notIc>>

\* initialize_contract(..)?: an error returns and global_context is dropped
\* with its transaction never committed
IcInitialize ==
    /\ ic_pc = "initialize"
    /\ IF ic_snippet = "runtime-error"
       THEN ic_result' = "Err" /\ ic_pc' = "returned" /\ ic_pending' = {}
       ELSE ic_result' = ic_result /\ ic_pc' = "store" /\ ic_pending' = ic_pending
    /\ UNCHANGED <<memory, ic_analysis, ic_hash, ic_contracts, ic_contexts, ic_wasm_cost,
                   ic_name, ic_snippet, ic_before, ic_calls, notIc>>

\* insert_contract, set_contract_data_size, commit, contract_contexts.insert,
\* wasm_cost += runtime_cost
IcStore ==
    /\ ic_pc = "store"
    /\ ic_hash' = ic_hash \cup ic_pending
    /\ ic_contracts' = ic_contracts \cup ic_pending
    /\ ic_pending' = {}
    /\ ic_contexts' = ic_contexts \cup {ic_name}
    /\ ic_wasm_cost' = ic_wasm_cost + 1
    /\ ic_result' = "Ok"
    /\ ic_pc' = "returned"
    /\ UNCHANGED <<memory, ic_analysis, ic_name, ic_snippet, ic_before, ic_calls, notIc>>

IcNext == IcCall \/ IcCompile \/ IcInsertAnalysis \/ IcBegin \/ IcInitialize \/ IcStore

SpecInitContract == IcInit /\ [][IcNext]_vars

\* C30: a call that returned an error has left the environment as it was
\* before the call, and a call is only rejected for a contract name that an
\* earlier call has initialised
C30_ErrorLeavesNothing ==
    /\ (ic_pc = "returned" /\ ic_result = "Err") => Recorded = ic_before
    /\ (ic_pc = "returned" /\ ic_result = "panic") => ic_name \in ic_contexts

=============================================================================
